---- MODULE Spec2Model ----
(***************************************************************************)
(* Validator control plane of subnet-42: the routing table and worker      *)
(* registry (validator/routing_table.py, db/routing_table_database.py),    *)
(* the TEE registration cycle (validator/node_manager.py), the periodic    *)
(* loops and the routing_table_updating interlock                          *)
(* (validator/background_tasks.py), the NATS publishers (validator/nats.py,*)
(* miner/nats_client.py) and the process monitor                           *)
(* (validator/process_monitor.py).                                         *)
(*                                                                         *)
(* The validator runs on one asyncio event loop: code between two awaits   *)
(* is atomic, so every action below is one such stretch of code.           *)
(***************************************************************************)
EXTENDS Integers, Sequences, FiniteSets, TLC

----------------------------------------------------------------------------
(* Value domains explored by the model.                                    *)

Hotkeys == {"hA", "hB"}

Addresses == {"X", "Y"}

Workers == {"w1", "w2"}

\* A uid as a Python value: node.node_id is an int, the tests pass strings.
\* PyStr(n) is the string str(n).
PyInt(n) == [type |-> "int", val |-> n]

PyStr(n) == [type |-> "str", val |-> n]

Uids == {PyInt(1), PyInt(2), PyStr(1), PyStr(2)}

None == "None"

\* Bounds of the exploration.
MaxCycles == 1

MaxClock == 1

\* ProcessMonitor(max_records_per_process=256) in the program; the ring is
\* explored with a small capacity.
max_records == 1

VARIABLES
    miner_addresses,        \* table miner_addresses, rows in rowid order
    worker_registry,        \* table worker_registry: worker_id -> hotkey or None
    unregistered_tees,      \* table unregistered_tees: address -> hotkey or None
    errors,                 \* ErrorRecords written by the registration path
    metagraph_nodes,        \* validator.metagraph.nodes (hotkeys on chain)
    connected_nodes,        \* NodeManager.connected_nodes (hotkeys)
    routing_table_updating, \* validator.routing_table_updating
    now,                    \* wall-clock time in seconds (UTC)
    utc_offset,             \* local time minus UTC on the host, in seconds
    clock,                  \* int(time.time() * 1000), as a tick counter
    current_executions,     \* ProcessMonitor.current_executions
    process_history,        \* ProcessMonitor.process_history
    utPc,                   \* position of the update_tee task
    ut,                     \* locals of the update_tee task
    current_entries_set,    \* update_tee_list: baseline (hotkey, address) pairs
    verified_entries,       \* update_tee_list: pairs verified in this cycle
    trig,                   \* trigger endpoint calls of send_connected_nodes
    lastPublish,            \* the last MessageBus publish and the flag then
    telemetry_data,         \* the list get_all_telemetry returned
    delta_node_data,        \* the list _get_delta_node_data returned, or None
    weights_manager,        \* the WeightsManager, or the error of its constructor
    miner_scores,           \* calculate_weights: uid -> score, or None
    sw,                     \* the set_weights task: position and locals
    tseq,                   \* one execute_telemetry_sequence call
    priority,               \* the last priority list built, and its inputs
    loops,                  \* the periodic loops: position of each
    monitor_max_records,    \* ProcessMonitor.max_records
    scorer,                 \* NodeDataScorer: cached registry answers, last call
    lastCall                \* the last operation and the case it met

rtVars == <<miner_addresses, worker_registry, unregistered_tees, lastCall>>

timeVars == <<now, utc_offset>>

TriggerSlots == {"t1"}

nodeVars == <<metagraph_nodes, connected_nodes>>

monVars == <<clock, current_executions, process_history>>

utVars == <<utPc, ut, current_entries_set, verified_entries>>

weightVars == <<telemetry_data, delta_node_data, weights_manager, miner_scores>>

taskVars == <<sw, tseq, priority, loops, monitor_max_records, scorer>>

schedVars == <<errors, nodeVars, routing_table_updating, timeVars, monVars, utVars,
               trig, lastPublish, weightVars, taskVars>>

vars == <<rtVars, schedVars>>

----------------------------------------------------------------------------
(* db/routing_table_database.py                                            *)

\* Column uid is declared TEXT: SQLite stores an integer bound to it as its
\* decimal text, and compares a bound integer with the column as text.
ToText(u) == PyStr(u.val)

\* A row of miner_addresses; timestamp DEFAULT CURRENT_TIMESTAMP.
Row(h, u, a, w, t) ==
    [hotkey |-> h, uid |-> u, address |-> a, worker_id |-> w, timestamp |-> t]

HasAddress(T, a) == \E i \in 1..Len(T) : T[i].address = a

\* INSERT without the UNIQUE(address) constraint.
add_address_no_unique(T, h, u, a, w, t) ==
    [table |-> Append(T, Row(h, ToText(u), a, w, t)),
     integrity_error |-> FALSE]

\* INSERT INTO miner_addresses; address is UNIQUE, a duplicate raises
\* sqlite3.IntegrityError and inserts nothing.
add_address(T, h, u, a, w, t) ==
    IF HasAddress(T, a)
    THEN [table |-> T, integrity_error |-> TRUE]
    ELSE [table |-> Append(T, Row(h, ToText(u), a, w, t)),
          integrity_error |-> FALSE]

\* UPDATE miner_addresses SET timestamp = CURRENT_TIMESTAMP
\* WHERE hotkey = ? AND uid = ? AND address = ? AND worker_id = ?
update_timestamp(T, h, u, a, w, t) ==
    [i \in 1..Len(T) |->
        IF /\ T[i].hotkey = h /\ T[i].uid = ToText(u)
           /\ T[i].address = a /\ T[i].worker_id = w
        THEN [T[i] EXCEPT !.timestamp = t]
        ELSE T[i]]

\* SELECT timestamp FROM miner_addresses WHERE address = ?
get_address_timestamp(T, a) ==
    IF HasAddress(T, a)
    THEN T[CHOOSE i \in 1..Len(T) : T[i].address = a].timestamp
    ELSE None

\* DELETE FROM miner_addresses WHERE hotkey = ? AND uid = ?
delete_address(T, h, u) ==
    LET Keep(r) == ~(r.hotkey = h /\ r.uid = ToText(u)) IN SelectSeq(T, Keep)

\* DELETE FROM miner_addresses WHERE address = ?
remove_miner_address_by_address(T, a) ==
    LET Keep(r) == r.address # a IN SelectSeq(T, Keep)

\* SELECT uid, address, worker_id FROM miner_addresses WHERE hotkey = ?
get_miner_addresses_by_hotkey(T, h) ==
    LET Keep(r) == r.hotkey = h IN SelectSeq(T, Keep)

\* INSERT OR IGNORE: an existing binding is kept.
register_worker_ignore(R, w, h) ==
    IF R[w] = None THEN [R EXCEPT ![w] = h] ELSE R

\* INSERT OR REPLACE INTO worker_registry (worker_id, hotkey)
register_worker(R, w, h) == [R EXCEPT ![w] = h]

\* SELECT hotkey FROM worker_registry WHERE worker_id = ?
get_worker_hotkey(R, w) == R[w]

\* INSERT OR REPLACE INTO unregistered_tees (address, hotkey); address is
\* the primary key.
db_add_unregistered_tee(U, a, h) == [U EXCEPT ![a] = h]

\* DELETE FROM unregistered_tees WHERE address = ?
remove_unregistered_tee(U, a) == [U EXCEPT ![a] = None]

\* SELECT address FROM unregistered_tees
get_all_unregistered_tee_addresses(U) == {a \in DOMAIN U : U[a] # None}

\* SELECT address FROM miner_addresses
get_all_addresses(T) == {T[i].address : i \in 1..Len(T)}

\* CURRENT_TIMESTAMP of SQLite is the UTC time.
CURRENT_TIMESTAMP(utc) == utc

\* datetime.now() is the naive local time of the host.
datetime_now(utc, offset) == utc + offset

----------------------------------------------------------------------------
(* validator/routing_table.py                                              *)

\* The loop of add_miner_address over the hotkey's rows: the first row that
\* is identical ends the call with a timestamp refresh, the first row with
\* the same uid and another address or worker_id is deleted, else insert.
\* existing_uid == uid is Python's comparison of the stored text with the
\* argument: a str never equals an int.
RECURSIVE ScanExisting(_, _, _, _)
ScanExisting(entries, u, a, w) ==
    IF entries = <<>> THEN "insert"
    ELSE LET e == Head(entries) IN
         IF e.uid = u /\ e.address = a /\ e.worker_id = w THEN "refresh"
         ELSE IF e.uid = u /\ (e.address # a \/ e.worker_id # w) THEN "replace"
         ELSE ScanExisting(Tail(entries), u, a, w)

\* add_miner_address: the result carries the table and whether an exception
\* reaches the caller.  sqlite3.Error (IntegrityError included) is caught
\* and logged inside the method, so nothing is ever raised.
add_miner_address(T, h, u, a, w, t) ==
    LET decision == ScanExisting(get_miner_addresses_by_hotkey(T, h), u, a, w)
        T1 == IF decision = "replace" THEN delete_address(T, h, u) ELSE T
        ins == add_address(T1, h, u, a, w, t)
    IN IF decision = "refresh"
       THEN [table |-> update_timestamp(T, h, u, a, w, t),
             raised |-> FALSE, collided |-> FALSE]
       ELSE [table |-> ins.table, raised |-> FALSE,
             collided |-> ins.integrity_error]

\* DELETE FROM miner_addresses, without the WHERE clause.
clear_miner_everyone(T, h) == <<>>

\* DELETE FROM miner_addresses WHERE hotkey = ?  (worker_registry untouched)
clear_miner(T, h) ==
    LET Keep(r) == r.hotkey # h IN SelectSeq(T, Keep)

\* RoutingTable.add_unregistered_tee: the address is posted to
\* {MASA_TEE_API}/register-tee-worker and the answer is turned into a bool;
\* the method never calls the database, so the table stays as it is.
add_unregistered_tee(U, a, h) == U

----------------------------------------------------------------------------
(* validator/errors_storage.py                                             *)

ErrorRecord(h, a, msg) == [hotkey |-> h, tee_address |-> a, message |-> msg]

add_error(E, h, a, msg) == E \cup {ErrorRecord(h, a, msg)}

----------------------------------------------------------------------------
(* validator/process_monitor.py                                            *)

ProcessNames ==
    {"update_tee", "send_priority_miners", "send_connected_nodes", "set_weights",
     "telemetry_loop"}

\* execution_id = f"{process_name}_{int(time.time() * 1000)}"
ExecutionId(name, ms) == <<name, ms>>

NoMetrics == [k \in {} |-> None]

MS_PER_SECOND == 1000

MS_PER_HOUR == 3600000

\* datetime.now() at the instant ms of the model's clock, in whole seconds.
StartTime(ms) == ms \div MS_PER_SECOND

\* start_process: a new in-flight entry under the execution id; an entry
\* already stored under the same id is overwritten.  start_time is
\* datetime.now(), read right after the time.time() of the id: the same
\* instant on the model's clock.
start_process(CE, name, ms) ==
    [id \in DOMAIN CE \cup {ExecutionId(name, ms)} |->
        IF id = ExecutionId(name, ms)
        THEN [process_name |-> name, start_time |-> StartTime(ms),
              errors |-> <<>>, additional_metrics |-> NoMetrics]
        ELSE CE[id]]

\* update_metrics: errors are extended, additional_metrics are merged with
\* dict.update, and an unknown execution id is ignored.
update_metrics(CE, id, errs, metrics) ==
    IF id \in DOMAIN CE
    THEN [CE EXCEPT ![id].errors = @ \o errs,
                    ![id].additional_metrics = metrics @@ @]
    ELSE CE

\* A list that grows without a limit.
ring_append_unbounded(ring, rec) == Append(ring, rec)

\* deque(maxlen=self.max_records).append
ring_append(ring, rec) ==
    IF Len(ring) >= monitor_max_records
    THEN Tail(ring) \o <<rec>>
    ELSE Append(ring, rec)

\* end_process without the in-flight entry being removed.
end_process_keep(CE, PH, id) ==
    IF id \notin DOMAIN CE
    THEN [ce |-> CE, ph |-> PH]
    ELSE [ce |-> CE,
          ph |-> [PH EXCEPT ![CE[id].process_name] =
                     ring_append(@, [start_time |-> CE[id].start_time,
                                     errors |-> CE[id].errors,
                                     additional_metrics |->
                                         CE[id].additional_metrics])]]

\* end_process: pops the in-flight entry and appends the finished record
\* to the ring of its process name; an unknown id changes nothing.
end_process(CE, PH, id) ==
    IF id \notin DOMAIN CE
    THEN [ce |-> CE, ph |-> PH]
    ELSE [ce |-> [k \in DOMAIN CE \ {id} |-> CE[k]],
          ph |-> [PH EXCEPT ![CE[id].process_name] =
                     ring_append(@, [start_time |-> CE[id].start_time,
                                     errors |-> CE[id].errors,
                                     additional_metrics |->
                                         CE[id].additional_metrics])]]

\* deque(list, maxlen=self.max_records): the last max_records items of the
\* list
deque(list) ==
    IF Len(list) > monitor_max_records
    THEN SubSeq(list, Len(list) - monitor_max_records + 1, Len(list))
    ELSE list

\* cleanup_old_records(hours) at the time current_ms: every ring keeps the
\* records with start_time > cutoff_time, in their order.
cleanup_old_records(PH, current_ms, hours) ==
    LET cutoff_time == StartTime(current_ms)
                           - hours * (MS_PER_HOUR \div MS_PER_SECOND)
        Recent(m) == m.start_time > cutoff_time
    IN [n \in DOMAIN PH |-> deque(SelectSeq(PH[n], Recent))]

\* start_process, one update_metrics and end_process in a row, as the
\* publishers do on their skip paths.
record_execution(CE, PH, id, errs, metrics) ==
    end_process(update_metrics(CE, id, errs, metrics), PH, id)

----------------------------------------------------------------------------
(* validator/node_manager.py                                               *)

\* node.node_id of a hotkey in the metagraph.
NodeId(h) == IF h = "hA" THEN PyInt(1) ELSE PyInt(2)

\* What execute_telemetry_sequence can return for a candidate address:
\* null, a result without worker_id ("no_worker_id"), or a result naming a
\* worker_id.
TelemetryOutcomes == {"null"} \cup Workers

\* What GET /tee can return: nothing, or a comma-separated address list.
TeeLists == {<<>>, <<"X">>, <<"Y", "X">>}

\* The text of a candidate address, in pieces: X and Y are https addresses
\* of TEE hosts, L and I name the validator's own host, P is a plain http
\* address and Q an https address behind a prefix.
Text(a) ==
    CASE a = "X" -> <<"https://", "x.example">>
      [] a = "Y" -> <<"https://", "y.example">>
      [] a = "L" -> <<"https://", "localhost", ":8080">>
      [] a = "I" -> <<"https://", "127.0.0.1">>
      [] a = "P" -> <<"http://", "p.example">>
      [] a = "Q" -> <<"tee+", "https://", "q.example">>

CandidateAddresses == Addresses \cup {"L", "I", "P", "Q"}

\* piece in tee_address
Contains(a, piece) == \E i \in 1..Len(Text(a)) : Text(a)[i] = piece

\* tee_address.startswith(piece)
StartsWith(a, piece) == Text(a)[1] = piece

\* Only the name localhost is looked for, and any address that mentions
\* https passes.
skip_reason_by_name(a) ==
    IF Contains(a, "localhost") THEN "Skipped: localhost TEE address"
    ELSE IF ~Contains(a, "https://") THEN "Skipped: non-HTTPS TEE address"
    ELSE None

\* The two checks at the head of _process_tee_address: the message of the
\* error record a skipped candidate gets, None for a candidate that goes on
\* to the telemetry request.
skip_reason(a) ==
    IF Contains(a, "localhost") \/ Contains(a, "127.0.0.1")
    THEN "Skipped: localhost TEE address"
    ELSE IF ~StartsWith(a, "https://")
    THEN "Skipped: non-HTTPS TEE address"
    ELSE None

\* What GET /tee can return when miners also name addresses that are not
\* public https addresses.
CandidateLists ==
    TeeLists \cup {<<"L">>, <<"I", "X">>, <<"P">>, <<"Q", "Y">>}

\* The node sets sync_nodes can read from the chain: hA leaves and returns.
ChainNodeSets == {Hotkeys, {"hB"}}

\* age_hours >= 4 in _cleanup_unverified_entries
CLEANUP_AGE_HOURS == 4

SECONDS_PER_HOUR == 3600

\* _handle_telemetry_failure: add_unregistered_tee is awaited, then the
\* error is recorded; the routing table and the registry are not touched.
handle_telemetry_failure(T, R, U, V, E, h, a, msg) ==
    [table |-> T, registry |-> R, unregistered |-> add_unregistered_tee(U, a, h),
     verified |-> V, errors |-> add_error(E, h, a, msg)]

\* _process_tee_address without the worker ownership check.
process_tee_address_no_owner_check(T, R, U, V, E, h, a, outcome, t) ==
    IF outcome = "null"
    THEN handle_telemetry_failure(T, R, U, V, E, h, a,
                                  "Telemetry failed to return results")
    ELSE IF outcome = "no_worker_id"
    THEN handle_telemetry_failure(T, R, U, V, E, h, a,
                       "Skipped: No worker_id returned from telemetry")
    ELSE LET res == add_miner_address(T, h, NodeId(h), a, outcome, t) IN
         [table |-> res.table, registry |-> register_worker(R, outcome, h),
          unregistered |-> U, verified |-> V \cup {<<h, a>>}, errors |-> E]

\* _process_tee_address: a localhost or non-https candidate gets an error
\* record and nothing else; for any other candidate the telemetry request
\* is made and, from its result on: failure handling, the worker ownership
\* check, then _register_tee_address (register_worker, add_miner_address,
\* verified).
process_tee_address(T, R, U, V, E, h, a, outcome, t) ==
    IF skip_reason(a) # None
    THEN [table |-> T, registry |-> R, unregistered |-> U, verified |-> V,
          errors |-> add_error(E, h, a, skip_reason(a))]
    ELSE IF outcome = "null"
    THEN handle_telemetry_failure(T, R, U, V, E, h, a,
                                  "Telemetry failed to return results")
    ELSE IF outcome = "no_worker_id"
    THEN handle_telemetry_failure(T, R, U, V, E, h, a,
                       "Skipped: No worker_id returned from telemetry")
    ELSE LET worker_hotkey == get_worker_hotkey(R, outcome)
             is_worker_already_owned ==
                 worker_hotkey # None /\ worker_hotkey # h
         IN IF is_worker_already_owned
            THEN [table |-> T, registry |-> R, unregistered |-> U,
                  verified |-> V,
                  errors |-> add_error(E, h, a,
                               "Skipped: Worker ID already registered")]
            ELSE LET R1 == register_worker(R, outcome, h)
                     res == add_miner_address(T, h, NodeId(h), a, outcome, t)
                 IN IF res.raised
                    THEN [table |-> res.table, registry |-> R1,
                          unregistered |-> U, verified |-> V,
                          errors |-> add_error(E, h, a,
                                "Address already exists for another miner")]
                    ELSE [table |-> res.table, registry |-> R1,
                          unregistered |-> U,
                          verified |-> V \cup {<<h, a>>}, errors |-> E]

\* _get_current_entries_for_update
get_current_entries(T) == {<<T[i].hotkey, T[i].address>> : i \in 1..Len(T)}

\* _cleanup_unverified_entries: a baseline pair that was not verified and is
\* still a row of its hotkey is removed when its timestamp is 4 hours old.
\* current_time is datetime.now(), entry_time the stored timestamp parsed
\* as a naive datetime.
cleanup_unverified_entries(T, current, verified, current_time) ==
    LET unverified == current \ verified
        Expired(r) ==
            /\ <<r.hotkey, r.address>> \in unverified
            /\ current_time - get_address_timestamp(T, r.address)
                   >= CLEANUP_AGE_HOURS * SECONDS_PER_HOUR
        Keep(r) == ~Expired(r)
    IN SelectSeq(T, Keep)

\* No shadow entry is removed.
cleanup_unregistered_tees_missing(T, U) == U

\* _cleanup_unregistered_tees: every registered address that is also in
\* unregistered_tees is removed from unregistered_tees.
cleanup_unregistered_tees(T, U) ==
    [a \in DOMAIN U |->
        IF a \in get_all_addresses(T)
               /\ a \in get_all_unregistered_tee_addresses(U)
        THEN remove_unregistered_tee(U, a)[a]
        ELSE U[a]]

\* The addresses get_priority_miners_by_score draws from: rows whose hotkey
\* is in the metagraph.
priority_addresses(T, M) == {T[i].address : i \in {j \in 1..Len(T) : T[j].hotkey \in M}}

HeldByOther(T, h, a) ==
    \E i \in 1..Len(T) : T[i].address = a /\ T[i].hotkey # h

WorkerConflict(R, h, outcome) ==
    /\ outcome \in Workers
    /\ get_worker_hotkey(R, outcome) \notin {None, h}

\* The case a candidate address falls into, for the record of the last call.
TeeCase(T, R, h, a, outcome) ==
    IF skip_reason(a) # None THEN "skipped"
    ELSE IF outcome \notin Workers THEN "verification_failed"
    ELSE IF WorkerConflict(R, h, outcome) THEN "worker_conflict"
    ELSE IF HeldByOther(T, h, a) THEN "address_collision"
    ELSE "registered"

----------------------------------------------------------------------------
(* validator/weights.py: _get_delta_node_data                              *)

\* The counters of a NodeData for which a delta is taken.
DeltaCounters ==
    {"twitter_auth_errors", "twitter_errors", "twitter_ratelimit_errors",
     "twitter_returned_profiles", "twitter_returned_tweets",
     "twitter_scrapes", "web_errors", "web_success"}

\* The counters summed into total_errors.
ErrorCounters ==
    {"twitter_auth_errors", "twitter_errors", "twitter_ratelimit_errors"}

Counters == DeltaCounters \cup {"twitter_returned_other"}

\* A timestamp that is neither an int nor a str, here the float float(n).
PyFloat(n) == [type |-> "float", val |-> n]

\* _convert_timestamp_to_int: an int is returned as it is, a string of
\* digits is parsed by int(), every other type gives 0.
convert_timestamp_to_int(timestamp) ==
    IF timestamp.type = "int" THEN timestamp.val
    ELSE IF timestamp.type = "str" THEN timestamp.val
    ELSE 0

\* A telemetry record of hotkey h: twitter_returned_tweets is tweets, every
\* other counter is other.
Reading(h, timestamp, tweets, other) ==
    [hotkey |-> h, uid |-> NodeId(h), timestamp |-> timestamp,
     counters |-> [c \in Counters |->
                      IF c = "twitter_returned_tweets" THEN tweets ELSE other]]

ZeroCounters == [c \in Counters |-> 0]

Max(a, b) == IF a > b THEN a ELSE b

\* sorted(telemetry_list, key=...): a stable sort, records with equal keys
\* keep their order.
RECURSIVE InsertByTimestamp(_, _)
InsertByTimestamp(sorted, r) ==
    IF sorted = <<>> THEN <<r>>
    ELSE IF convert_timestamp_to_int(sorted[Len(sorted)].timestamp)
                <= convert_timestamp_to_int(r.timestamp)
    THEN Append(sorted, r)
    ELSE Append(InsertByTimestamp(SubSeq(sorted, 1, Len(sorted) - 1), r),
                sorted[Len(sorted)])

RECURSIVE SortByTimestamp(_)

\* The records are taken in the order of the telemetry list.
SortByTimestampMissing(list) == list

SortByTimestamp(list) ==
    IF list = <<>> THEN <<>>
    ELSE InsertByTimestamp(SortByTimestamp(SubSeq(list, 1, Len(list) - 1)),
                           list[Len(list)])

RECURSIVE BaselineIndex(_, _, _)

\* The walk keeps the baseline whatever the next record holds.
BaselineIndexNoReset(sorted, b, i) == b

\* The walk over sorted_telemetry[1:]: the index of the baseline after the
\* records from position i on, with the baseline at position b before.
BaselineIndex(sorted, b, i) ==
    IF i > Len(sorted) THEN b
    ELSE IF sorted[i].counters["twitter_returned_tweets"]
                < sorted[b].counters["twitter_returned_tweets"]
    THEN BaselineIndex(sorted, i, i + 1)
    ELSE BaselineIndex(sorted, b, i + 1)

RECURSIVE SumOver(_, _)
SumOver(f, S) ==
    IF S = {} THEN 0
    ELSE LET c == CHOOSE x \in S : TRUE IN f[c] + SumOver(f, S \ {c})

\* latest - baseline, negative when the counter went down.
CounterDeltaRaw(latest, baseline) == latest - baseline

\* max(0, latest - baseline)
CounterDelta(latest, baseline) == Max(0, latest - baseline)

\* The record of a hotkey with at least two telemetry records.
DeltaFromSeries(h, telemetry_list) ==
    LET sorted_telemetry == SortByTimestamp(telemetry_list)
        baseline_record == sorted_telemetry[BaselineIndex(sorted_telemetry, 1, 2)]
        latest_record == sorted_telemetry[Len(sorted_telemetry)]
        deltas == [c \in Counters |->
                      IF c \in DeltaCounters
                      THEN CounterDelta(latest_record.counters[c],
                                        baseline_record.counters[c])
                      ELSE 0]
    IN [hotkey |-> h,
        uid |-> latest_record.uid,
        timestamp |-> convert_timestamp_to_int(latest_record.timestamp),
        counters |-> deltas,
        time_span_seconds |->
            convert_timestamp_to_int(latest_record.timestamp)
                - convert_timestamp_to_int(baseline_record.timestamp),
        total_errors |-> SumOver(deltas, ErrorCounters)]

\* The record of a hotkey with fewer than two telemetry records, or none;
\* the uid is looked up in the metagraph, 0 when the hotkey is not there.
EmptyDelta(h, M) ==
    [hotkey |-> h,
     uid |-> IF h \in M THEN NodeId(h) ELSE PyInt(0),
     timestamp |-> 0,
     counters |-> ZeroCounters,
     time_span_seconds |-> 0,
     total_errors |-> 0]

\* The keys of telemetry_by_hotkey, in the order of their first record.
RECURSIVE HotkeysInOrder(_)
HotkeysInOrder(data) ==
    IF data = <<>> THEN <<>>
    ELSE LET front == HotkeysInOrder(SubSeq(data, 1, Len(data) - 1))
             h == data[Len(data)].hotkey
         IN IF \E i \in 1..Len(front) : front[i] = h THEN front
            ELSE Append(front, h)

\* telemetry_by_hotkey[h]
RecordsOf(data, h) == LET Of(r) == r.hotkey = h IN SelectSeq(data, Of)

\* The metagraph hotkeys in the order of the nodes dict.
RECURSIVE SeqOfSet(_)
SeqOfSet(S) ==
    IF S = {} THEN <<>>
    ELSE LET h == CHOOSE x \in S : \A y \in S : NodeId(x).val <= NodeId(y).val
         IN <<h>> \o SeqOfSet(S \ {h})

\* Only the hotkeys of the telemetry get a record.
get_delta_node_data_telemetry_only(data, M) ==
    LET keys == HotkeysInOrder(data) IN
    [i \in 1..Len(keys) |->
        IF Len(RecordsOf(data, keys[i])) >= 2
        THEN DeltaFromSeries(keys[i], RecordsOf(data, keys[i]))
        ELSE EmptyDelta(keys[i], M)]

\* _get_delta_node_data: one record per hotkey of the telemetry, then one
\* per metagraph hotkey without telemetry.
get_delta_node_data(data, M) ==
    LET keys == HotkeysInOrder(data)
        processed == {keys[i] : i \in 1..Len(keys)}
        rest == SeqOfSet(M \ processed)
    IN [i \in 1..Len(keys) |->
           IF Len(RecordsOf(data, keys[i])) >= 2
           THEN DeltaFromSeries(keys[i], RecordsOf(data, keys[i]))
           ELSE EmptyDelta(keys[i], M)]
       \o [i \in 1..Len(rest) |-> EmptyDelta(rest[i], M)]

----------------------------------------------------------------------------
(* validator/weights.py: WeightsManager.__init__ and calculate_weights     *)

\* Scoring weights are counted in units of 1e-6: 1.0 and the tolerance 1e-6
\* of the constructor.
WEIGHT_ONE == 1000000

WEIGHT_TOLERANCE == 1

\* tweets_weight = 0.6, error_quality_weight = 0.4, error_rate_threshold =
\* 10.0 errors per hour
DEFAULT_TWEETS_WEIGHT == 600000

DEFAULT_ERROR_QUALITY_WEIGHT == 400000

DEFAULT_ERROR_RATE_THRESHOLD == 10

Abs(x) == IF x < 0 THEN 0 - x ELSE x

\* The constructor without the check of the sum.
WeightsManagerInitUnchecked(tweets_weight, error_quality_weight, threshold) ==
    [error |-> None, tweets_weight |-> tweets_weight,
     error_quality_weight |-> error_quality_weight,
     error_rate_threshold |-> threshold]

\* WeightsManager.__init__: ValueError when the weights do not sum to 1.0
\* within 1e-6.
WeightsManagerInit(tweets_weight, error_quality_weight, threshold) ==
    IF Abs(tweets_weight + error_quality_weight - WEIGHT_ONE) > WEIGHT_TOLERANCE
    THEN [error |-> "ValueError", tweets_weight |-> tweets_weight,
          error_quality_weight |-> error_quality_weight,
          error_rate_threshold |-> threshold]
    ELSE [error |-> None, tweets_weight |-> tweets_weight,
          error_quality_weight |-> error_quality_weight,
          error_rate_threshold |-> threshold]

RECURSIVE GCD(_, _)
GCD(a, b) == IF b = 0 THEN a ELSE GCD(b, a % b)

\* A rational number num / den with den > 0, in lowest terms, or
\* float("inf").
Frac(num, den) ==
    LET g == GCD(Abs(num), den) IN
    [inf |-> FALSE, num |-> num \div g, den |-> den \div g]

Infinity == [inf |-> TRUE, num |-> 1, den |-> 1]

FracLess(a, b) ==
    IF a.inf THEN FALSE
    ELSE IF b.inf THEN TRUE
    ELSE a.num * b.den < b.num * a.den

FracEq(a, b) == ~FracLess(a, b) /\ ~FracLess(b, a)

SECONDS_IN_HOUR == 3600

\* error_rate = total_errors / (time_span_seconds / 3600), float("inf")
\* without a time span.
ErrorRate(node) ==
    IF node.time_span_seconds > 0
    THEN Frac(node.total_errors * SECONDS_IN_HOUR, node.time_span_seconds)
    ELSE Infinity

\* np.max over the finite error rates, 0 when there is none.
MaxFiniteErrorRate(rates) ==
    LET finite == {i \in 1..Len(rates) : ~rates[i].inf} IN
    IF finite = {} THEN Frac(0, 1)
    ELSE rates[CHOOSE i \in finite :
                   \A j \in finite : ~FracLess(rates[i], rates[j])]

\* np.where(np.isinf(rate), max_finite + 1, rate)
ReplaceInfinite(rate, max_finite) ==
    IF rate.inf THEN Frac(max_finite.num + max_finite.den, max_finite.den)
    ELSE rate

\* 1.0 / (1.0 + error_rate)
QualityScore(rate) == Frac(rate.den, rate.den + rate.num)

\* The results of apply_kurtosis_custom are counted in hundredths.
KURTOSIS_ONE == 100

\* apply_kurtosis_custom: all zeros for an input of zeros; else the values
\* are centred, shaped by a sigmoid and a tanh boost, the top percentile is
\* rewarded, and the result is normalised by (y - min) / (max - min + 1e-8),
\* so the lowest value gives 0, the highest gives 1 and equal values give
\* equal results.  The shaping between the two ends is order preserving
\* and is taken here by rank among the distinct values.
apply_kurtosis_custom(x) ==
    LET idx == 1..Len(x)
        firsts == {i \in idx : \A j \in 1..(i - 1) : ~FracEq(x[j], x[i])}
        rank(i) == Cardinality({j \in firsts : FracLess(x[j], x[i])})
    IN [i \in idx |->
           IF \A j \in idx : x[j].num = 0 THEN 0
           ELSE IF Cardinality(firsts) = 1 THEN 0
           ELSE (rank(i) * KURTOSIS_ONE) \div (Cardinality(firsts) - 1)]

\* penalty_factor = min(1.0, (error_rate - threshold) / threshold)
PenaltyFactor(rate, threshold) ==
    LET exceedance == Frac(rate.num - threshold * rate.den,
                           threshold * rate.den)
    IN IF FracLess(exceedance, Frac(1, 1)) THEN exceedance ELSE Frac(1, 1)

\* base_score * (1 - penalty_factor)
Penalised(base_score, penalty) ==
    Frac(base_score * (penalty.den - penalty.num), penalty.den)

\* The scores of calculate_weights for the nodes of delta_node_data, in
\* units of 1e-6 / KURTOSIS_ONE: the error rates, the threshold mask taken
\* before the infinite rates are replaced, the two kurtosis curves, the
\* base score and the penalty.
NodeScores(wm, nodes) ==
    LET idx == 1..Len(nodes)
        error_rates_per_hour == [i \in idx |-> ErrorRate(nodes[i])]
        threshold_exceeded_mask ==
            [i \in idx |-> FracLess(Frac(wm.error_rate_threshold, 1),
                                    error_rates_per_hour[i])]
        max_finite_error_rate == MaxFiniteErrorRate(error_rates_per_hour)
        replaced == [i \in idx |-> ReplaceInfinite(error_rates_per_hour[i],
                                                   max_finite_error_rate)]
        tweets == apply_kurtosis_custom(
                      [i \in idx |->
                          Frac(nodes[i].counters["twitter_returned_tweets"], 1)])
        error_quality_scores ==
            apply_kurtosis_custom([i \in idx |-> QualityScore(replaced[i])])
        base_score(i) == tweets[i] * wm.tweets_weight
                             + error_quality_scores[i] * wm.error_quality_weight
    IN [i \in idx |->
           IF threshold_exceeded_mask[i]
           THEN Penalised(base_score(i),
                          PenaltyFactor(replaced[i], wm.error_rate_threshold))
           ELSE Frac(base_score(i), 1)]

\* uid = node.uid in a simulation, else metagraph.nodes[hotkey].node_id; a
\* hotkey missing from the metagraph raises KeyError, which is logged.
ScoredUid(node, M, simulation) ==
    IF simulation THEN node.uid
    ELSE IF node.hotkey \in M THEN NodeId(node.hotkey)
    ELSE PyInt(0 - 1)

HasUid(node, M, simulation) == simulation \/ node.hotkey \in M

\* calculate_weights: miner_scores[uid] = score for every node in turn, a
\* later node with the same uid overwrites an earlier one.
calculate_weights(wm, nodes, M, simulation) ==
    LET scores == NodeScores(wm, nodes)
        scored == {i \in 1..Len(nodes) : HasUid(nodes[i], M, simulation)}
        uids == {ScoredUid(nodes[i], M, simulation) : i \in scored}
        last(u) == CHOOSE i \in scored :
                       /\ ScoredUid(nodes[i], M, simulation) = u
                       /\ \A j \in scored :
                              ScoredUid(nodes[j], M, simulation) = u => j <= i
    IN [u \in uids |-> scores[last(u)]]

----------------------------------------------------------------------------
(* Direct calls of the routing-table operations, any arguments.            *)

NoCall == [op |-> "none", case |-> "none"]

IdleCall == [pc |-> "idle", exec |-> None, attempt |-> 0]

\* No execute_telemetry_sequence call made yet.
SequenceIdle ==
    [pc |-> "idle", retries |-> 0, attempts |-> <<>>, slept |-> <<>>,
     result |-> "none", calls |-> 0]

\* No priority list built yet.
NoPriorityList ==
    [op |-> "none", list_size |-> 0, scored |-> <<>>, error |-> FALSE,
     list |-> <<>>]

\* The counters aggregate_telemetry_stats returns.
StatNames ==
    {"twitter_auth_errors", "twitter_errors", "twitter_ratelimit_errors",
     "twitter_returned_other", "twitter_returned_profiles",
     "twitter_returned_tweets", "twitter_scrapes", "web_errors", "web_success"}

ZeroStats == [n \in StatNames |-> 0]

\* A Python dict as a value of another dict.
PyDict(f) == [type |-> "dict", items |-> f]

EmptyDict == [k \in {} |-> 0]

\* NodeDataScorer.__init__: nothing fetched yet, no telemetry aggregated.
ScorerInit ==
    [active_stat_name |-> None, active_worker_version |-> None,
     telemetry_result |-> [worker_version |-> None, stats |-> EmptyDict],
     outcome |-> "none", stats |-> ZeroStats]

\* The four periodic loops of the validator.
LoopNames == {"sync", "update_tee", "telemetry", "set_weights"}

\* A loop that has just been created as a task: about to start its first
\* iteration.
LoopStart == [pc |-> "iterate", slept |-> 0]

\* The set_weights task before its first invocation: no chain answer read,
\* nothing slept, nothing submitted.
SetWeightsIdle ==
    [pc |-> "idle", exec |-> None,
     blocks_since_update |-> [type |-> "NoneType", val |-> 0],
     min_interval |-> 0, waited |-> FALSE, slept |-> <<>>, attempt |-> 0,
     results |-> <<>>, outcome |-> "none", cycles |-> 0]

\* Local time minus UTC on a host three hours east of UTC.
EastOfUtc == 3 * SECONDS_PER_HOUR

\* The database file outlives the process: at construction it is empty, or
\* it holds what an earlier run registered (here a row of hA verified four
\* hours before the start and a row of hB verified one hour before it) and
\* what was written to unregistered_tees through the database class.
PersistedDatabases ==
    {[table |-> <<>>, registry |-> [w \in Workers |-> None],
      unregistered |-> [a \in Addresses |-> None]],
     [table |-> <<Row("hA", PyStr(1), "X", "w1",
                      0 - CLEANUP_AGE_HOURS * SECONDS_PER_HOUR),
                  Row("hB", PyStr(2), "Y", "w2", 0 - SECONDS_PER_HOUR)>>,
      registry |-> [w \in Workers |-> IF w = "w1" THEN "hA" ELSE "hB"],
      unregistered |->
          db_add_unregistered_tee(
              db_add_unregistered_tee([a \in Addresses |-> None], "X", "hB"),
              "Y", "hB")]}

NoScores == [u \in {} |-> Frac(0, 1)]

\* The state after the construction of the validator on a host whose local
\* time is offset seconds ahead of UTC, with database db, the chain node
\* set M and the telemetry list data: Validator.__init__ builds the
\* WeightsManager with its default weights.
ConstructedWith(offset, db, M, data, max_records_per_process) ==
    /\ monitor_max_records = max_records_per_process
    /\ scorer = ScorerInit
    /\ miner_addresses = db.table
    /\ worker_registry = db.registry
    /\ unregistered_tees = db.unregistered
    /\ telemetry_data = data
    /\ delta_node_data = <<>>
    /\ weights_manager = WeightsManagerInit(DEFAULT_TWEETS_WEIGHT,
                                            DEFAULT_ERROR_QUALITY_WEIGHT,
                                            DEFAULT_ERROR_RATE_THRESHOLD)
    /\ miner_scores = NoScores
    /\ lastCall = NoCall
    /\ errors = {}
    /\ metagraph_nodes = M
    /\ connected_nodes = {}
    /\ routing_table_updating = FALSE
    /\ now = 0
    /\ utc_offset = offset
    /\ clock = 0
    /\ current_executions = NoMetrics
    /\ process_history = [n \in ProcessNames |-> <<>>]
    /\ utPc = "sleep"
    /\ ut = [exec |-> None, pmExec |-> None, attempt |-> 0, cycles |-> 0,
             sleep |-> "none", available |-> {}, todo |-> {}, cur |-> None,
             pending |-> <<>>, log |-> <<>>]
    /\ current_entries_set = {}
    /\ verified_entries = {}
    /\ trig = [s \in TriggerSlots |-> IdleCall]
    /\ lastPublish = [by |-> "none", updating |-> FALSE]
    /\ sw = SetWeightsIdle
    /\ tseq = SequenceIdle
    /\ priority = NoPriorityList
    /\ loops = [l \in LoopNames |-> LoopStart]

\* BackgroundTasks builds ProcessMonitor(max_records_per_process=256); the
\* model builds it with the ring capacity it explores.
Constructed(offset, db, M, data) ==
    ConstructedWith(offset, db, M, data, max_records)

\* The validator starts with all hotkeys on chain and no telemetry yet.
Boot(offset) ==
    \E db \in PersistedDatabases : Constructed(offset, db, Hotkeys, <<>>)

\* A host on UTC.
Init == Boot(0)

\* A host east of UTC.
InitEast == Boot(EastOfUtc)

\* Local time minus UTC on a host three hours west of UTC.
WestOfUtc == 0 - 3 * SECONDS_PER_HOUR

\* A host west of UTC.
InitWest == Boot(WestOfUtc)

AddMinerAddress(h, u, a, w) ==
    LET res == add_miner_address(miner_addresses, h, u, a, w,
                                 CURRENT_TIMESTAMP(now)) IN
    /\ miner_addresses' = res.table
    /\ lastCall' = [op |-> "add_miner_address",
                    case |-> IF HeldByOther(miner_addresses, h, a)
                             THEN "address_collision" ELSE "added"]
    /\ UNCHANGED <<worker_registry, unregistered_tees, schedVars>>

ClearMiner(h) ==
    /\ miner_addresses' = clear_miner(miner_addresses, h)
    /\ lastCall' = [op |-> "clear_miner",
                    case |-> [hotkey |-> h,
                              had_rows |-> \E i \in 1..Len(miner_addresses) :
                                              miner_addresses[i].hotkey = h]]
    /\ UNCHANGED <<worker_registry, unregistered_tees, schedVars>>

RemoveMinerAddressByAddress(a) ==
    /\ miner_addresses' = remove_miner_address_by_address(miner_addresses, a)
    /\ lastCall' = [op |-> "remove_miner_address_by_address", case |-> a]
    /\ UNCHANGED <<worker_registry, unregistered_tees, schedVars>>

RegisterWorker(w, h) ==
    /\ worker_registry' = register_worker(worker_registry, w, h)
    /\ lastCall' = [op |-> "register_worker",
                    case |-> IF WorkerConflict(worker_registry, h, w)
                             THEN "rebinding" ELSE "binding"]
    /\ UNCHANGED <<miner_addresses, unregistered_tees, schedVars>>

RTNext ==
    \/ \E h \in Hotkeys, u \in Uids, a \in Addresses, w \in Workers :
           AddMinerAddress(h, u, a, w)
    \/ \E h \in Hotkeys : ClearMiner(h)
    \/ \E a \in Addresses : RemoveMinerAddressByAddress(a)
    \/ \E w \in Workers, h \in Hotkeys : RegisterWorker(w, h)

SpecRT == Init /\ [][RTNext]_vars

----------------------------------------------------------------------------
(* validator/background_tasks.py: the update_tee task                      *)

\* update_tee(60 * 60): safe_cadence, and retry_delay = max(30, cadence // 2)
UPDATE_TEE_CADENCE == 3600

RetryDelay(cadence) ==
    IF cadence \div 2 > 30 THEN cadence \div 2 ELSE 30

\* Seconds that have passed when the task is scheduled again: none before
\* the first iteration, else the requested sleep.
WakeDelays(sleep) ==
    IF sleep = "none" THEN {0}
    ELSE IF sleep = "cadence" THEN {UPDATE_TEE_CADENCE}
    ELSE {RetryDelay(UPDATE_TEE_CADENCE)}

SleepDelays == {0, UPDATE_TEE_CADENCE, RetryDelay(UPDATE_TEE_CADENCE)}

\* The update flag is never set.
set_update_flag_missing(flag) == flag

\* self.validator.routing_table_updating = True, before the try block
set_update_flag(flag) == TRUE

\* The finally block leaves the flag as it is.
release_update_flag_missing(flag) == flag

\* finally: self.validator.routing_table_updating = False
release_update_flag(flag) == FALSE

\* except: self.validator.routing_table_updating = False
clear_flag_on_error(flag) == FALSE

Event(e, flag) == [ev |-> e, updating |-> flag]

UT_Begin(d) ==
    /\ utPc = "sleep"
    /\ ut.cycles < MaxCycles
    /\ d \in WakeDelays(ut.sleep)
    /\ now' = now + d
    /\ UNCHANGED <<utc_offset, weightVars, taskVars>>
    /\ current_executions' = start_process(current_executions, "update_tee", clock)
    /\ routing_table_updating' = set_update_flag(routing_table_updating)
    /\ ut' = [ut EXCEPT !.exec = ExecutionId("update_tee", clock),
                        !.cycles = @ + 1,
                        !.available = metagraph_nodes \ connected_nodes,
                        !.log = <<Event("iteration_started",
                                        routing_table_updating)>>]
    /\ utPc' = "connect"
    /\ UNCHANGED <<rtVars, errors, nodeVars, clock, process_history,
                   current_entries_set, verified_entries, trig, lastPublish>>

\* connect_new_nodes: a handshake with every snapshot node not yet
\* connected, each succeeding or not; then update_tee_list starts and takes
\* its baseline.
UT_ConnectNewNodes(S) ==
    /\ utPc = "connect"
    /\ S \subseteq ut.available
    /\ connected_nodes' = connected_nodes \cup S
    /\ current_entries_set' = get_current_entries(miner_addresses)
    /\ verified_entries' = {}
    /\ ut' = [ut EXCEPT !.todo = connected_nodes \cup S,
                        !.log = @ \o <<Event("connect_new_nodes_done",
                                             routing_table_updating),
                                       Event("update_tee_list_started",
                                             routing_table_updating)>>]
    /\ utPc' = "nodes"
    /\ UNCHANGED <<rtVars, errors, metagraph_nodes, routing_table_updating, timeVars, weightVars, taskVars,
                   monVars, trig, lastPublish>>

\* _process_connected_nodes: the next hotkey of the shuffled snapshot; a
\* hotkey no longer in the metagraph is skipped, else GET /tee is awaited.
UT_PickNode(h) ==
    /\ utPc = "nodes"
    /\ h \in ut.todo
    /\ IF h \in metagraph_nodes
       THEN /\ ut' = [ut EXCEPT !.todo = @ \ {h}, !.cur = h]
            /\ utPc' = "await_tee"
       ELSE /\ ut' = [ut EXCEPT !.todo = @ \ {h}]
            /\ utPc' = utPc
    /\ UNCHANGED <<rtVars, errors, nodeVars, routing_table_updating, timeVars, weightVars, taskVars, monVars,
                   current_entries_set, verified_entries, trig, lastPublish>>

\* _process_single_node: the /tee answer; an empty answer ends the node (the
\* else branch raises NameError on current_tees, which the method catches).
UT_TeeResponse(lst) ==
    /\ utPc = "await_tee"
    /\ lst \in CandidateLists
    /\ IF lst = <<>>
       THEN /\ ut' = [ut EXCEPT !.cur = None]
            /\ utPc' = "nodes"
       ELSE /\ ut' = [ut EXCEPT !.pending = lst]
            /\ utPc' = "await_telemetry"
    /\ UNCHANGED <<rtVars, errors, nodeVars, routing_table_updating, timeVars, weightVars, taskVars, monVars,
                   current_entries_set, verified_entries, trig, lastPublish>>

\* _process_tee_address: the candidate is checked; unless it is skipped, the
\* telemetry result of the candidate arrives and the registration decision
\* is taken.
UT_TelemetryResult(outcome) ==
    /\ utPc = "await_telemetry"
    /\ outcome \in TelemetryOutcomes
    /\ LET a == Head(ut.pending)
           res == process_tee_address(miner_addresses, worker_registry,
                                      unregistered_tees, verified_entries,
                                      errors, ut.cur, a, outcome,
                                      CURRENT_TIMESTAMP(now))
       IN /\ miner_addresses' = res.table
          /\ worker_registry' = res.registry
          /\ unregistered_tees' = res.unregistered
          /\ verified_entries' = res.verified
          /\ errors' = res.errors
          /\ lastCall' = [op |-> "process_tee_address",
                          case |-> TeeCase(miner_addresses, worker_registry,
                                           ut.cur, a, outcome)]
          /\ IF Len(ut.pending) = 1
             THEN /\ ut' = [ut EXCEPT !.pending = <<>>, !.cur = None]
                  /\ utPc' = "nodes"
             ELSE /\ ut' = [ut EXCEPT !.pending = Tail(@)]
                  /\ utPc' = utPc
    /\ UNCHANGED <<nodeVars, routing_table_updating, timeVars, weightVars, taskVars, monVars,
                   current_entries_set, trig, lastPublish>>

\* An exception escapes update_tee_list: the finally block and the except
\* block clear the flag, the error is recorded, the record is ended and the
\* retry sleep starts.
UT_UpdateRaises ==
    /\ utPc = "nodes"
    /\ LET f1 == release_update_flag(routing_table_updating)
           f2 == clear_flag_on_error(f1)
           done == end_process(
                       update_metrics(current_executions, ut.exec,
                                      <<"error">>, NoMetrics),
                       process_history, ut.exec)
       IN /\ routing_table_updating' = f2
          /\ current_executions' = done.ce
          /\ process_history' = done.ph
          /\ ut' = [ut EXCEPT !.exec = None, !.sleep = "retry", !.todo = {},
                              !.log = @ \o <<Event("update_tee_list_raised",
                                                   routing_table_updating),
                                             Event("flag_released", f1),
                                             Event("sleep", f2)>>]
    /\ utPc' = "sleep"
    /\ current_entries_set' = {}
    /\ verified_entries' = {}
    /\ UNCHANGED <<rtVars, errors, nodeVars, timeVars, weightVars, taskVars, clock, trig, lastPublish>>

SkipMetrics(reason) == [skipped |-> TRUE, reason |-> reason]

\* All connected nodes are processed: cleanup of unverified entries and of
\* unregistered TEEs, the
\* finally block, then send_priority_miners is called, opens its record and
\* checks the flag; with the flag set it records a skip and the iteration
\* ends, else scoring is awaited.
UT_FinishUpdate ==
    /\ utPc = "nodes"
    /\ ut.todo = {}
    /\ LET f1 == release_update_flag(routing_table_updating)
           pmId == ExecutionId("send_priority_miners", clock)
           ce1 == start_process(current_executions, "send_priority_miners", clock)
           skipped == record_execution(ce1, process_history, pmId, <<>>,
                                       SkipMetrics("routing_table_updating"))
           ended == end_process(update_metrics(skipped.ce, ut.exec, <<>>, NoMetrics),
                                skipped.ph, ut.exec)
           log1 == ut.log \o <<Event("update_tee_list_done", routing_table_updating),
                               Event("flag_released", f1),
                               Event("send_priority_miners_called", f1)>>
       IN /\ miner_addresses' = cleanup_unverified_entries(
                 miner_addresses, current_entries_set, verified_entries,
                 datetime_now(now, utc_offset))
          /\ unregistered_tees' = cleanup_unregistered_tees(
                 miner_addresses', unregistered_tees)
          /\ lastCall' = [op |-> "cleanup_unverified_entries",
                          case |-> IF miner_addresses' = miner_addresses
                                   THEN "kept" ELSE "removed"]
          /\ routing_table_updating' = f1
          /\ IF f1
             THEN /\ current_executions' = ended.ce
                  /\ process_history' = ended.ph
                  /\ ut' = [ut EXCEPT !.exec = None, !.sleep = "cadence",
                                      !.log = log1 \o <<Event("sleep", f1)>>]
                  /\ utPc' = "sleep"
             ELSE /\ current_executions' = ce1
                  /\ process_history' = process_history
                  /\ ut' = [ut EXCEPT !.pmExec = pmId, !.log = log1]
                  /\ utPc' = "pm_scoring"
    /\ current_entries_set' = {}
    /\ verified_entries' = {}
    /\ UNCHANGED <<worker_registry, errors, nodeVars, timeVars, weightVars, taskVars, clock, trig,
                   lastPublish>>

\* The update_tee record of the running iteration is ended, with the
\* error of a failed iteration or without.
IterationEnded(CE, PH, errs) ==
    end_process(update_metrics(CE, ut.exec, errs, NoMetrics), PH, ut.exec)

UT_SleepAfterSuccess(CE, PH) ==
    LET ended == IterationEnded(CE, PH, <<>>) IN
    /\ current_executions' = ended.ce
    /\ process_history' = ended.ph
    /\ routing_table_updating' = routing_table_updating
    /\ ut' = [ut EXCEPT !.exec = None, !.pmExec = None, !.attempt = 0,
                        !.sleep = "cadence",
                        !.log = @ \o <<Event("sleep", routing_table_updating)>>]
    /\ utPc' = "sleep"

UT_SleepAfterError(CE, PH) ==
    LET ended == IterationEnded(CE, PH, <<"error">>)
        f == clear_flag_on_error(routing_table_updating)
    IN /\ current_executions' = ended.ce
       /\ process_history' = ended.ph
       /\ routing_table_updating' = f
       /\ ut' = [ut EXCEPT !.exec = None, !.pmExec = None, !.attempt = 0,
                           !.sleep = "retry",
                           !.log = @ \o <<Event("sleep", f)>>]
       /\ utPc' = "sleep"

----------------------------------------------------------------------------
(* validator/nats.py: send_priority_miners, called by the update_tee task  *)

\* max_retries = 3 in both publishers
NATS_MAX_RETRIES == 3

FailureMetrics == [attempts |-> NATS_MAX_RETRIES, final_error |-> TRUE]

\* get_priority_miners_by_score returns (ok) or raises; an empty list is
\* recorded as a skip, a non-empty one goes to the message bus.
PM_Scored(ok) ==
    /\ utPc = "pm_scoring"
    /\ ok \in BOOLEAN
    /\ IF ~ok
       THEN LET rec == record_execution(current_executions, process_history,
                                        ut.pmExec, <<"error">>,
                                        [unexpected_error |-> TRUE])
            IN UT_SleepAfterError(rec.ce, rec.ph)
       ELSE IF priority_addresses(miner_addresses, metagraph_nodes) = {}
       THEN LET rec == record_execution(current_executions, process_history,
                                        ut.pmExec, <<>>,
                                        SkipMetrics("no_priority_miners"))
            IN UT_SleepAfterSuccess(rec.ce, rec.ph)
       ELSE /\ utPc' = "pm_connect"
            /\ ut' = [ut EXCEPT !.attempt = 0]
            /\ UNCHANGED <<routing_table_updating, current_executions,
                           process_history>>
    /\ UNCHANGED <<rtVars, errors, nodeVars, timeVars, weightVars, taskVars, clock, current_entries_set,
                   verified_entries, trig, lastPublish>>

\* A failed attempt of nc.send_priority_miners: back off and retry, or after
\* the last attempt record the failure and raise into the update_tee loop.
PM_AttemptFailed ==
    IF ut.attempt < NATS_MAX_RETRIES - 1
    THEN /\ utPc' = "pm_backoff"
         /\ ut' = ut
         /\ UNCHANGED <<routing_table_updating, current_executions,
                        process_history>>
    ELSE LET rec == record_execution(current_executions, process_history,
                                     ut.pmExec, <<"error">>, FailureMetrics)
         IN UT_SleepAfterError(rec.ce, rec.ph)

\* NatsClient.send_priority_miners: await self.nc.connect
PM_Connect(ok) ==
    /\ utPc = "pm_connect"
    /\ ok \in BOOLEAN
    /\ IF ok
       THEN /\ utPc' = "pm_publish"
            /\ UNCHANGED <<ut, routing_table_updating, current_executions,
                           process_history>>
       ELSE PM_AttemptFailed
    /\ UNCHANGED <<rtVars, errors, nodeVars, timeVars, weightVars, taskVars, clock, current_entries_set,
                   verified_entries, trig, lastPublish>>

\* NatsClient.send_priority_miners: await self.nc.publish, then close
PM_Publish(ok) ==
    /\ utPc = "pm_publish"
    /\ ok \in BOOLEAN
    /\ lastPublish' = [by |-> "send_priority_miners",
                       updating |-> routing_table_updating]
    /\ IF ok
       THEN LET rec == record_execution(current_executions, process_history,
                                        ut.pmExec, <<>>,
                                        [attempts |-> ut.attempt + 1])
            IN UT_SleepAfterSuccess(rec.ce, rec.ph)
       ELSE PM_AttemptFailed
    /\ UNCHANGED <<rtVars, errors, nodeVars, timeVars, weightVars, taskVars, clock, current_entries_set,
                   verified_entries, trig>>

\* await asyncio.sleep(retry_delay), then the next attempt
PM_Backoff ==
    /\ utPc = "pm_backoff"
    /\ utPc' = "pm_connect"
    /\ ut' = [ut EXCEPT !.attempt = @ + 1]
    /\ UNCHANGED <<rtVars, errors, nodeVars, routing_table_updating, timeVars, weightVars, taskVars, monVars,
                   current_entries_set, verified_entries, trig, lastPublish>>

----------------------------------------------------------------------------
(* validator/api_routes.py trigger_send_connected_nodes and                *)
(* validator/nats.py send_connected_nodes                                  *)

\* get_all_addresses_atomic
get_all_addresses_atomic(T) == {T[i].address : i \in 1..Len(T)}

\* The endpoint is called: the record is opened and the flag is checked;
\* a set flag or an empty table is recorded as a skip, else the publisher
\* goes on to NatsClient.send_connected_nodes and awaits the connection.
\* Calls that go on to the message bus are followed in the slots of trig.
Trig_Call(s) ==
    /\ LET id == ExecutionId("send_connected_nodes", clock)
           ce1 == start_process(current_executions, "send_connected_nodes", clock)
           reason == IF routing_table_updating THEN "routing_table_updating"
                     ELSE "no_addresses"
           rec == record_execution(ce1, process_history, id, <<>>,
                                   SkipMetrics(reason))
       IN /\ lastCall' = [op |-> "send_connected_nodes",
                          case |-> IF routing_table_updating
                                   THEN "observed_updating"
                                   ELSE "observed_not_updating"]
          /\ IF routing_table_updating
                \/ get_all_addresses_atomic(miner_addresses) = {}
             THEN /\ current_executions' = rec.ce
                  /\ process_history' = rec.ph
                  /\ trig' = trig
             ELSE /\ trig[s].pc = "idle"
                  /\ current_executions' = ce1
                  /\ process_history' = process_history
                  /\ trig' = [trig EXCEPT ![s] =
                                 [pc |-> "connect", exec |-> id, attempt |-> 0]]
    /\ UNCHANGED <<miner_addresses, worker_registry, unregistered_tees, errors,
                   nodeVars, routing_table_updating, timeVars, weightVars, taskVars, clock, utVars,
                   lastPublish>>

\* NatsClient.send_connected_nodes: await self.nc.connect; a failed
\* connection is logged and the call returns, which the publisher counts
\* as a success.
Trig_Connect(s, ok) ==
    /\ trig[s].pc = "connect"
    /\ ok \in BOOLEAN
    /\ IF ok
       THEN /\ trig' = [trig EXCEPT ![s].pc = "publish"]
            /\ UNCHANGED <<current_executions, process_history>>
       ELSE LET rec == record_execution(current_executions, process_history,
                                        trig[s].exec, <<>>,
                                        [attempts |-> trig[s].attempt + 1])
            IN /\ current_executions' = rec.ce
               /\ process_history' = rec.ph
               /\ trig' = [trig EXCEPT ![s] = IdleCall]
    /\ UNCHANGED <<rtVars, errors, nodeVars, routing_table_updating, timeVars, weightVars, taskVars, clock,
                   utVars, lastPublish>>

\* NatsClient.send_connected_nodes: await self.nc.publish (its failure is
\* swallowed), then await self.nc.close in the finally block; only a failing
\* close raises into the retry loop of the publisher.
Trig_Publish(s, closed) ==
    /\ trig[s].pc = "publish"
    /\ closed \in BOOLEAN
    /\ lastPublish' = [by |-> "send_connected_nodes",
                       updating |-> routing_table_updating]
    /\ IF closed
       THEN LET rec == record_execution(current_executions, process_history,
                                        trig[s].exec, <<>>,
                                        [attempts |-> trig[s].attempt + 1])
            IN /\ current_executions' = rec.ce
               /\ process_history' = rec.ph
               /\ trig' = [trig EXCEPT ![s] = IdleCall]
       ELSE IF trig[s].attempt < NATS_MAX_RETRIES - 1
       THEN /\ trig' = [trig EXCEPT ![s].pc = "backoff"]
            /\ UNCHANGED <<current_executions, process_history>>
       ELSE LET rec == record_execution(current_executions, process_history,
                                        trig[s].exec, <<"error">>,
                                        FailureMetrics)
            IN /\ current_executions' = rec.ce
               /\ process_history' = rec.ph
               /\ trig' = [trig EXCEPT ![s] = IdleCall]
    /\ UNCHANGED <<rtVars, errors, nodeVars, routing_table_updating, timeVars, weightVars, taskVars, clock,
                   utVars>>

\* await asyncio.sleep(retry_delay), then the next attempt
Trig_Backoff(s) ==
    /\ trig[s].pc = "backoff"
    /\ trig' = [trig EXCEPT ![s].pc = "connect", ![s].attempt = @ + 1]
    /\ UNCHANGED <<rtVars, errors, nodeVars, routing_table_updating, timeVars, weightVars, taskVars, monVars,
                   utVars, lastPublish>>

----------------------------------------------------------------------------
(* validator/background_tasks.py sync_loop, validator/metagraph.py         *)

\* The connection is dropped and clear_miner is not called.
remove_disconnected_nodes_keep_rows(T, C, M) ==
    [table |-> T, connected |-> C \cap M]

\* remove_disconnected_nodes: every connected hotkey that left the
\* metagraph is dropped and its rows are cleared.
remove_disconnected_nodes(T, C, M) ==
    LET keys_to_delete == C \ M
        Keep(r) == r.hotkey \notin keys_to_delete
    IN [table |-> SelectSeq(T, Keep), connected |-> C \ keys_to_delete]

\* One iteration of the sync loop: sync_nodes reads the chain node set M,
\* then remove_disconnected_nodes runs; nothing in it awaits.
SyncLoopIteration(M) ==
    /\ M \in ChainNodeSets
    /\ LET res == remove_disconnected_nodes(miner_addresses, connected_nodes, M)
       IN /\ metagraph_nodes' = M
          /\ connected_nodes' = res.connected
          /\ miner_addresses' = res.table
          /\ lastCall' = [op |-> "remove_disconnected_nodes",
                          case |-> IF res.table = miner_addresses
                                   THEN "kept" ELSE "removed"]
    /\ UNCHANGED <<worker_registry, unregistered_tees, errors,
                   routing_table_updating, timeVars, weightVars, taskVars, monVars, utVars, trig,
                   lastPublish>>

\* The millisecond clock advances.
Tick ==
    /\ clock < MaxClock
    /\ clock' = clock + 1
    /\ UNCHANGED <<rtVars, errors, nodeVars, routing_table_updating, timeVars, weightVars, taskVars,
                   current_executions, process_history, utVars, trig, lastPublish>>

\* The update_tee task: every /tee answer and telemetry outcome, a message
\* bus that accepts the priority list at the first attempt.
UpdateTee ==
    \/ \E d \in SleepDelays : UT_Begin(d)
    \/ \E S \in SUBSET Hotkeys : UT_ConnectNewNodes(S)
    \/ \E h \in Hotkeys : UT_PickNode(h)
    \/ \E lst \in TeeLists : UT_TeeResponse(lst)
    \/ \E outcome \in TelemetryOutcomes : UT_TelemetryResult(outcome)
    \/ UT_UpdateRaises
    \/ UT_FinishUpdate
    \/ PM_Scored(TRUE)
    \/ PM_Connect(TRUE)
    \/ PM_Publish(TRUE)

\* The update_tee task and the sync loop on the event loop.
Next ==
    \/ UpdateTee
    \/ \E M \in ChainNodeSets : SyncLoopIteration(M)

Spec == Init /\ [][Next]_vars

\* The same program on a host east of UTC.
SpecEast == InitEast /\ [][Next]_vars

\* The same program on a host west of UTC.
SpecWest == InitWest /\ [][Next]_vars

\* The update_tee task with miners that name localhost, plain http and
\* prefixed addresses in their /tee answers.
NextCandidates ==
    \/ \E d \in SleepDelays : UT_Begin(d)
    \/ \E S \in SUBSET Hotkeys : UT_ConnectNewNodes(S)
    \/ \E h \in Hotkeys : UT_PickNode(h)
    \/ \E lst \in CandidateLists : UT_TeeResponse(lst)
    \/ \E outcome \in TelemetryOutcomes : UT_TelemetryResult(outcome)
    \/ UT_UpdateRaises
    \/ UT_FinishUpdate
    \/ PM_Scored(TRUE)
    \/ PM_Connect(TRUE)
    \/ PM_Publish(TRUE)

SpecCandidates == Init /\ [][NextCandidates]_vars

\* Miners that answer /tee with an empty list, for the specifications of
\* the scheduling side.
SchedTeeLists == {<<>>}

\* The update_tee task in full on its scheduling side: failing scoring,
\* connections and publishes with their retries, next to the sync loop.
NextSched ==
    \/ \E d \in SleepDelays : UT_Begin(d)
    \/ \E S \in SUBSET Hotkeys : UT_ConnectNewNodes(S)
    \/ \E h \in Hotkeys : UT_PickNode(h)
    \/ \E lst \in SchedTeeLists : UT_TeeResponse(lst)
    \/ UT_UpdateRaises
    \/ UT_FinishUpdate
    \/ \E ok \in BOOLEAN : PM_Scored(ok)
    \/ \E ok \in BOOLEAN : PM_Connect(ok)
    \/ \E ok \in BOOLEAN : PM_Publish(ok)
    \/ PM_Backoff
    \/ \E M \in ChainNodeSets : SyncLoopIteration(M)

SpecSched == Init /\ [][NextSched]_vars

\* The trigger endpoint, called while an earlier call or an update_tee
\* iteration is in flight, with its retries and the millisecond clock; the
\* message bus accepts the priority list at the first attempt.
NextTrig ==
    \/ \E d \in SleepDelays : UT_Begin(d)
    \/ \E S \in SUBSET Hotkeys : UT_ConnectNewNodes(S)
    \/ \E h \in Hotkeys : UT_PickNode(h)
    \/ \E lst \in SchedTeeLists : UT_TeeResponse(lst)
    \/ UT_UpdateRaises
    \/ UT_FinishUpdate
    \/ PM_Scored(TRUE)
    \/ PM_Connect(TRUE)
    \/ PM_Publish(TRUE)
    \/ \E s \in TriggerSlots : Trig_Call(s)
    \/ \E s \in TriggerSlots, ok \in BOOLEAN : Trig_Connect(s, ok)
    \/ \E s \in TriggerSlots, closed \in BOOLEAN : Trig_Publish(s, closed)
    \/ \E s \in TriggerSlots : Trig_Backoff(s)
    \/ Tick

SpecTrig == Init /\ [][NextTrig]_vars

----------------------------------------------------------------------------
(* validator/weights.py: the scoring functions on bounded inputs           *)

\* The longest telemetry series of one hotkey.
MaxSeries == 3

\* Timestamps of telemetry records: the ints 1 and 2, the string "3" and
\* the float 4.0.
Timestamps == {PyInt(1), PyInt(2), PyStr(3), PyFloat(4)}

TweetCounts == 0..2

OtherCounts == 0..1

\* The series of the reset example: tweets 30, 45, 5, 15 at t = 1000, 2000,
\* 3000, 4000.
ExampleSeries ==
    <<Reading("hA", PyInt(1000), 30, 0), Reading("hA", PyInt(2000), 45, 0),
      Reading("hA", PyInt(3000), 5, 0), Reading("hA", PyInt(4000), 15, 0)>>

\* The telemetry series of hA: every series of up to MaxSeries readings,
\* and the example.
SeriesA ==
    UNION {[1..n -> {Reading("hA", t, v, o) :
                        t \in Timestamps, v \in TweetCounts, o \in OtherCounts}]
              : n \in 0..MaxSeries}
        \cup {ExampleSeries}

\* The telemetry series of hB: none, one reading, two readings.
SeriesB ==
    {<<>>,
     <<Reading("hB", PyInt(1), 1, 0)>>,
     <<Reading("hB", PyInt(1), 1, 1), Reading("hB", PyInt(2), 2, 0)>>}

EmptyDatabase ==
    [table |-> <<>>, registry |-> [w \in Workers |-> None],
     unregistered |-> [a \in Addresses |-> None]]

InitDelta ==
    \E a \in SeriesA, b \in SeriesB, M \in ChainNodeSets :
        Constructed(0, EmptyDatabase, M, a \o b)

\* _get_delta_node_data(telemetry) as set_weights and the publishers call it.
GetDeltaNodeData ==
    /\ lastCall = NoCall
    /\ delta_node_data' = get_delta_node_data(telemetry_data, metagraph_nodes)
    /\ lastCall' = [op |-> "get_delta_node_data",
                    case |-> IF \E h \in Hotkeys :
                                    Len(RecordsOf(telemetry_data, h)) >= 2
                             THEN "series" ELSE "no_series"]
    /\ UNCHANGED <<miner_addresses, worker_registry, unregistered_tees,
                   telemetry_data, weights_manager, miner_scores, errors,
                   nodeVars, routing_table_updating, timeVars, monVars, utVars,
                   trig, lastPublish, taskVars>>

NextDelta == GetDeltaNodeData

SpecDelta == InitDelta /\ [][NextDelta]_vars

\* A delta record as _get_delta_node_data builds it, with the errors in
\* twitter_errors.
DeltaInput(h, tweets, total_errors, time_span_seconds) ==
    [hotkey |-> h, uid |-> NodeId(h), timestamp |-> time_span_seconds,
     counters |-> [c \in Counters |->
                      IF c = "twitter_returned_tweets" THEN tweets
                      ELSE IF c = "twitter_errors" THEN total_errors
                      ELSE 0],
     time_span_seconds |-> time_span_seconds,
     total_errors |-> total_errors]

\* Delta records of one hotkey: no tweets or some, an error rate of 0, 15
\* or 25 per hour over one hour, or no time span.
DeltaInputs(h) ==
    {DeltaInput(h, v, e, t) :
        v \in {0, 2}, e \in {0, 15, 25}, t \in {0, SECONDS_IN_HOUR}}

\* The weight pairs the constructor is called with: sums of 1.0, of
\* 1.0 +- 1e-6, of 1.0 +- 2e-6, and two round pairs.
WeightPairs ==
    {<<DEFAULT_TWEETS_WEIGHT, DEFAULT_ERROR_QUALITY_WEIGHT + d>> :
        d \in {0 - 2, 0 - 1, 0, 1, 2}}
        \cup {<<WEIGHT_ONE \div 2, WEIGHT_ONE \div 2>>, <<WEIGHT_ONE, WEIGHT_ONE>>}

InitWeights ==
    \E M \in ChainNodeSets :
        /\ Constructed(0, EmptyDatabase, M, <<>>)
        /\ lastCall = NoCall

\* WeightsManager(validator, tweets_weight, error_quality_weight)
WM_Construct(tweets_weight, error_quality_weight) ==
    /\ lastCall.op # "calculate_weights"
    /\ weights_manager' = WeightsManagerInit(tweets_weight, error_quality_weight,
                                             DEFAULT_ERROR_RATE_THRESHOLD)
    /\ lastCall' = [op |-> "WeightsManager",
                    case |-> weights_manager'.error]
    /\ UNCHANGED <<miner_addresses, worker_registry, unregistered_tees,
                   telemetry_data, delta_node_data, miner_scores, errors,
                   nodeVars, routing_table_updating, timeVars, monVars, utVars,
                   trig, lastPublish, taskVars>>

\* calculate_weights(delta_node_data, simulation) on a constructed manager.
CalculateWeights(nodes, simulation) ==
    /\ lastCall.op # "calculate_weights"
    /\ weights_manager.error = None
    /\ delta_node_data' = nodes
    /\ miner_scores' = calculate_weights(weights_manager, nodes,
                                         metagraph_nodes, simulation)
    /\ lastCall' = [op |-> "calculate_weights",
                    case |-> IF simulation THEN "simulation" ELSE "chain"]
    /\ UNCHANGED <<miner_addresses, worker_registry, unregistered_tees,
                   telemetry_data, weights_manager, errors,
                   nodeVars, routing_table_updating, timeVars, monVars, utVars,
                   trig, lastPublish, taskVars>>

NextWeights ==
    \/ \E pair \in WeightPairs : WM_Construct(pair[1], pair[2])
    \/ \E a \in DeltaInputs("hA"), b \in DeltaInputs("hB"),
          simulation \in BOOLEAN :
           CalculateWeights(<<a, b>>, simulation)

SpecWeights == InitWeights /\ [][NextWeights]_vars

----------------------------------------------------------------------------
(* validator/weights.py: set_weights, and set_weights_loop around it       *)

\* wait_seconds = wait_blocks * 12
SECONDS_PER_BLOCK == 12

\* await asyncio.sleep(10) between two submit attempts
SUBMIT_BACKOFF == 10

\* for attempt in range(3)
SUBMIT_ATTEMPTS == 3

\* Answers of blocks_since_last_update and min_interval_to_set_weights.
\* The Python value None.
PyNone == [type |-> "NoneType", val |-> 0]

BlocksSinceUpdate == {PyNone, PyInt(0), PyInt(1), PyInt(2), PyInt(3)}

MinIntervals == {2, 3}

\* Results of one weights.set_node_weights call.
SubmitResults == {"true", "false", "raise"}

\* if blocks_since_update is not None and blocks_since_update < min_interval
MustWait(blocks, min_interval) ==
    blocks # PyNone /\ blocks.val < min_interval

WaitSeconds(blocks, min_interval) ==
    (min_interval - blocks.val) * SECONDS_PER_BLOCK

\* Telemetry the storage holds when set_weights runs.
StoredTelemetry ==
    {<<>>,
     <<Reading("hA", PyInt(1), 0, 0), Reading("hA", PyInt(2), 2, 1)>>,
     <<Reading("hA", PyInt(1), 0, 0), Reading("hA", PyInt(2), 1, 0),
       Reading("hB", PyInt(1), 1, 1), Reading("hB", PyInt(2), 2, 0)>>}

InitSetWeights ==
    \E M \in ChainNodeSets, data \in StoredTelemetry :
        Constructed(0, EmptyDatabase, M, data)

\* The position after a set_node_weights call whose exception is not
\* caught inside the loop.
after_submit_uncaught(result, attempt) ==
    IF result = "true" THEN "returned"
    ELSE IF result = "raise" THEN "raised"
    ELSE IF attempt < SUBMIT_ATTEMPTS - 1 THEN "backoff"
    ELSE "returned"

\* The position after a set_node_weights call: return on success, sleep
\* before the next attempt on a false result or an exception, and fall out
\* of the loop after the last attempt.
after_submit(result, attempt) ==
    IF result = "true" THEN "returned"
    ELSE IF attempt < SUBMIT_ATTEMPTS - 1 THEN "backoff"
    ELSE "returned"

\* set_weights up to its first await: start_process, the chain answers,
\* and on a short interval the skip record and the sleep.
SW_Begin(blocks, min_interval) ==
    /\ sw.pc = "idle"
    /\ sw.cycles < MaxCycles + 1
    /\ LET id == ExecutionId("set_weights", clock)
           started == start_process(current_executions, "set_weights", clock)
           wait == MustWait(blocks, min_interval)
           skipped == record_execution(started, process_history, id, <<>>,
                          [skipped |-> TRUE, reason |-> "min_interval_not_met"])
       IN /\ current_executions' = IF wait THEN skipped.ce ELSE started
          /\ process_history' = IF wait THEN skipped.ph ELSE process_history
          /\ sw' = [sw EXCEPT
                       !.pc = IF wait THEN "interval_sleep" ELSE "calculate",
                       !.exec = id,
                       !.blocks_since_update = blocks,
                       !.min_interval = min_interval,
                       !.waited = wait,
                       !.slept = IF wait
                                 THEN <<WaitSeconds(blocks, min_interval)>>
                                 ELSE <<>>,
                       !.attempt = 0,
                       !.results = <<>>,
                       !.outcome = "none",
                       !.cycles = @ + 1]
    /\ UNCHANGED <<rtVars, errors, nodeVars, routing_table_updating, timeVars,
                   clock, utVars, trig, lastPublish, weightVars,
                   tseq, priority, loops, monitor_max_records, scorer>>

\* The chain connection, the validator's node id or one of the two chain
\* queries raises: the outer handler records the error and raises again.
SW_BeginRaises ==
    /\ sw.pc = "idle"
    /\ sw.cycles < MaxCycles + 1
    /\ LET id == ExecutionId("set_weights", clock)
           started == start_process(current_executions, "set_weights", clock)
           failed == record_execution(started, process_history, id,
                         <<"unexpected_error">>, [unexpected_error |-> TRUE])
       IN /\ current_executions' = failed.ce
          /\ process_history' = failed.ph
          /\ sw' = [sw EXCEPT !.pc = "raised", !.exec = id,
                              !.blocks_since_update = PyNone,
                              !.min_interval = 0,
                              !.waited = FALSE, !.slept = <<>>,
                              !.attempt = 0, !.results = <<>>,
                              !.outcome = "raised", !.cycles = @ + 1]
    /\ UNCHANGED <<rtVars, errors, nodeVars, routing_table_updating, timeVars,
                   clock, utVars, trig, lastPublish, weightVars,
                   tseq, priority, loops, monitor_max_records, scorer>>

\* asyncio.sleep(wait_seconds) is over: "Wait period complete", and the
\* code goes on to the calculation.
SW_WaitComplete ==
    /\ sw.pc = "interval_sleep"
    /\ sw' = [sw EXCEPT !.pc = "calculate"]
    /\ UNCHANGED <<rtVars, errors, nodeVars, routing_table_updating, timeVars,
                   monVars, utVars, trig, lastPublish, weightVars,
                   tseq, priority, loops, monitor_max_records, scorer>>

\* telemetry -> _get_delta_node_data -> calculate_weights
SW_Calculate ==
    /\ sw.pc = "calculate"
    /\ delta_node_data' = get_delta_node_data(telemetry_data, metagraph_nodes)
    /\ miner_scores' = calculate_weights(weights_manager, delta_node_data',
                                         metagraph_nodes, FALSE)
    /\ sw' = [sw EXCEPT !.pc = "submit"]
    /\ UNCHANGED <<rtVars, errors, nodeVars, routing_table_updating, timeVars,
                   monVars, utVars, trig, lastPublish, telemetry_data,
                   weights_manager, tseq, priority, loops, monitor_max_records, scorer>>

\* One weights.set_node_weights call and what follows it up to the next
\* await or the return.
SW_Submit(result) ==
    /\ sw.pc = "submit"
    /\ LET next == after_submit(result, sw.attempt)
           metrics == IF result = "true"
                      THEN [attempts |-> sw.attempt + 1]
                      ELSE [attempts |-> SUBMIT_ATTEMPTS]
           errs == IF result = "true" THEN <<>>
                   ELSE <<"Failed to set weights after all attempts">>
           ended == record_execution(current_executions, process_history,
                                     sw.exec, errs, metrics)
       IN /\ sw' = [sw EXCEPT
                       !.pc = next,
                       !.results = Append(@, result),
                       !.slept = IF next = "backoff"
                                 THEN Append(@, SUBMIT_BACKOFF) ELSE @,
                       !.outcome = IF next \in {"returned", "raised"}
                                   THEN next ELSE @]
          /\ current_executions' = IF next = "returned" THEN ended.ce
                                   ELSE current_executions
          /\ process_history' = IF next = "returned" THEN ended.ph
                                ELSE process_history
    /\ UNCHANGED <<rtVars, errors, nodeVars, routing_table_updating, timeVars,
                   clock, utVars, trig, lastPublish, weightVars,
                   tseq, priority, loops, monitor_max_records, scorer>>

\* asyncio.sleep(10) is over: the next attempt.
SW_Backoff ==
    /\ sw.pc = "backoff"
    /\ sw' = [sw EXCEPT !.pc = "submit", !.attempt = @ + 1]
    /\ UNCHANGED <<rtVars, errors, nodeVars, routing_table_updating, timeVars,
                   monVars, utVars, trig, lastPublish, weightVars,
                   tseq, priority, loops, monitor_max_records, scorer>>

\* set_weights_loop: after a return it sleeps the cadence, after an
\* exception the retry delay, and calls set_weights again.
SW_LoopAgain ==
    /\ sw.pc \in {"returned", "raised"}
    /\ sw.cycles < MaxCycles + 1
    /\ sw' = [sw EXCEPT !.pc = "idle"]
    /\ UNCHANGED <<rtVars, errors, nodeVars, routing_table_updating, timeVars,
                   monVars, utVars, trig, lastPublish, weightVars,
                   tseq, priority, loops, monitor_max_records, scorer>>

NextSetWeights ==
    \/ \E blocks \in BlocksSinceUpdate, min_interval \in MinIntervals :
           SW_Begin(blocks, min_interval)
    \/ SW_BeginRaises
    \/ SW_WaitComplete
    \/ SW_Calculate
    \/ \E result \in SubmitResults : SW_Submit(result)
    \/ SW_Backoff
    \/ SW_LoopAgain
    \/ Tick

SpecSetWeights == InitSetWeights /\ [][NextSetWeights]_vars

----------------------------------------------------------------------------
(* validator/telemetry.py: execute_telemetry_sequence                      *)

\* execute_telemetry_sequence(self, max_retries=3, delay=5, ...)
TELEMETRY_MAX_RETRIES == 3

TELEMETRY_RETRY_DELAY == 5

\* generate_telemetry_job, add_telemetry_job, check_telemetry_job,
\* return_telemetry_job, as the try block calls them.
Legs == <<"generate", "add", "status", "result">>

\* What response.json() of /job/result decodes to: the telemetry of a
\* worker.
DecodedResults == Workers

LegCall(leg, ok, value) == [leg |-> leg, ok |-> ok, value |-> value]

\* The loop condition never ends the loop.
after_failed_attempt_forever(retries, max_retries) == "attempt"

\* while retries < max_retries, read after the sleep of a failed attempt:
\* another attempt, or "Max retries reached" and return None.
after_failed_attempt(retries, max_retries) ==
    IF retries < max_retries THEN "attempt" ELSE "returned"

\* A caller awaits execute_telemetry_sequence(): retries = 0, and the
\* first attempt starts.
TS_Call ==
    /\ tseq.pc \in {"idle", "returned"}
    /\ tseq.calls < MaxCycles + 1
    /\ tseq' = [pc |-> "attempt", retries |-> 0, attempts |-> <<<<>>>>,
                slept |-> <<>>, result |-> "none", calls |-> tseq.calls + 1]
    /\ UNCHANGED <<rtVars, errors, nodeVars, routing_table_updating, timeVars,
                   monVars, utVars, trig, lastPublish, weightVars,
                   sw, priority, loops, monitor_max_records, scorer>>

\* The next leg of the attempt answers: on success the attempt goes on, or
\* returns the decoded result after the fourth leg; on an exception the
\* handler counts the retry and sleeps.
TS_Leg(ok, value) ==
    /\ tseq.pc = "attempt"
    /\ LET n == Len(tseq.attempts)
           leg == Legs[Len(tseq.attempts[n]) + 1]
           called == [tseq.attempts EXCEPT
                         ![n] = Append(@, LegCall(leg, ok, value))]
       IN tseq' =
            IF ~ok
            THEN [tseq EXCEPT !.attempts = called,
                              !.retries = @ + 1,
                              !.slept = Append(@, TELEMETRY_RETRY_DELAY),
                              !.pc = "sleeping"]
            ELSE IF leg = "result"
            THEN [tseq EXCEPT !.attempts = called,
                              !.result = value,
                              !.pc = "returned"]
            ELSE [tseq EXCEPT !.attempts = called]
    /\ UNCHANGED <<rtVars, errors, nodeVars, routing_table_updating, timeVars,
                   monVars, utVars, trig, lastPublish, weightVars,
                   sw, priority, loops, monitor_max_records, scorer>>

\* asyncio.sleep(delay) is over: the loop condition is read again.
TS_Wake ==
    /\ tseq.pc = "sleeping"
    /\ tseq' =
         IF after_failed_attempt(tseq.retries, TELEMETRY_MAX_RETRIES) = "attempt"
         THEN [tseq EXCEPT !.pc = "attempt", !.attempts = Append(@, <<>>)]
         ELSE [tseq EXCEPT !.pc = "returned", !.result = "null"]
    /\ UNCHANGED <<rtVars, errors, nodeVars, routing_table_updating, timeVars,
                   monVars, utVars, trig, lastPublish, weightVars,
                   sw, priority, loops, monitor_max_records, scorer>>

NextSequence ==
    \/ TS_Call
    \/ \E ok \in BOOLEAN, value \in DecodedResults : TS_Leg(ok, value)
    \/ TS_Wake

SpecSequence == Init /\ [][NextSequence]_vars

----------------------------------------------------------------------------
(* validator/weights.py get_priority_miners_by_score and                   *)
(* validator/api_routes.py get_weighted_priority_miners_list               *)

\* The longest priority list asked for (list_size is 256 and 100 by
\* default).
MaxList == 3

ListSizes == 1..MaxList

\* 0.001 in the unit of the scores.
SCORE_EPSILON == 100000

FracAdd(a, b) == Frac(a.num * b.den + b.num * a.den, a.den * b.den)

FracSub(a, b) == Frac(a.num * b.den - b.num * a.den, a.den * b.den)

\* int(a / b * n) for b > 0: the quotient is truncated towards zero.
TruncatedShare(a, b, n) ==
    LET q == Frac(a.num * b.den, a.den * b.num)
        scaled == (Abs(q.num) * n) \div q.den
    IN IF q.num < 0 THEN 0 - scaled ELSE scaled

\* The orders in which random.shuffle can leave the rows that
\* get_all_addresses_with_hotkeys selected.
get_all_addresses_with_hotkeys(T) ==
    {[i \in 1..Len(T) |-> T[p[i]]] :
        p \in {q \in [1..Len(T) -> 1..Len(T)] :
                  \A i, j \in 1..Len(T) : q[i] = q[j] => i = j}}

\* address_scores without the metagraph lookup: every row counts, a row of
\* a hotkey that left the chain with the score of uid 0.
address_scores_any_hotkey(rows, M, uid_to_score) ==
    LET score_of(r) ==
            IF r.hotkey \in M /\ NodeId(r.hotkey) \in DOMAIN uid_to_score
            THEN uid_to_score[NodeId(r.hotkey)] ELSE Frac(0, 1)
    IN [i \in 1..Len(rows) |->
           [address |-> rows[i].address, score |-> score_of(rows[i]),
            hotkey |-> rows[i].hotkey]]

\* address_scores: the rows, in their order, whose hotkey is in the
\* metagraph (no KeyError) and whose node_id has a score.
address_scores(rows, M, uid_to_score) ==
    LET Has(r) == r.hotkey \in M /\ NodeId(r.hotkey) \in DOMAIN uid_to_score
        kept == SelectSeq(rows, Has)
    IN [i \in 1..Len(kept) |->
           [address |-> kept[i].address,
            score |-> uid_to_score[NodeId(kept[i].hotkey)],
            hotkey |-> kept[i].hotkey]]

\* np.min(scores)
MinScore(scored) ==
    scored[CHOOSE i \in 1..Len(scored) :
               \A j \in 1..Len(scored) :
                   ~FracLess(scored[j].score, scored[i].score)].score

\* The sampling weights: scores - min_score + 0.001 when the lowest score
\* is negative, and 0.001 added to all.
SamplingWeights(scored) ==
    LET min_score == MinScore(scored)
        eps == Frac(SCORE_EPSILON, 1)
        shifted(x) == IF FracLess(min_score, Frac(0, 1))
                      THEN FracAdd(FracSub(x, min_score), eps) ELSE x
    IN [i \in 1..Len(scored) |-> FracAdd(shifted(scored[i].score), eps)]

\* address_scores.sort(key=score, reverse=True): a stable sort.
RECURSIVE InsertByScore(_, _)
InsertByScore(sorted, r) ==
    IF sorted = <<>> THEN <<r>>
    ELSE IF ~FracLess(sorted[Len(sorted)].score, r.score)
    THEN Append(sorted, r)
    ELSE Append(InsertByScore(SubSeq(sorted, 1, Len(sorted) - 1), r),
                sorted[Len(sorted)])

RECURSIVE SortByScore(_)
SortByScore(list) ==
    IF list = <<>> THEN <<>>
    ELSE InsertByScore(SortByScore(SubSeq(list, 1, Len(list) - 1)),
                       list[Len(list)])

\* The lists get_priority_miners_by_score can return for the rows in the
\* order given: none without scores or scored addresses; else list_size
\* draws of np.random.choice among the addresses of positive probability,
\* or, when a probability is negative (ValueError), the addresses sorted
\* by score.
sampled_lists(scored, list_size) ==
    IF scored = <<>> THEN {<<>>}
    ELSE LET w == SamplingWeights(scored)
         IN IF \E i \in 1..Len(scored) : FracLess(w[i], Frac(0, 1))
            THEN {[i \in 1..Len(scored) |-> SortByScore(scored)[i].address]}
            ELSE [1..list_size ->
                     {scored[i].address :
                         i \in {j \in 1..Len(scored) :
                                   FracLess(Frac(0, 1), w[j])}}]

get_priority_miners_by_score(scores, rows, M, list_size) ==
    IF DOMAIN scores = {} THEN {<<>>}
    ELSE sampled_lists(address_scores(rows, M, scores), list_size)

RECURSIVE SumScores(_)
SumScores(scored) ==
    IF scored = <<>> THEN Frac(0, 1)
    ELSE FracAdd(SumScores(SubSeq(scored, 1, Len(scored) - 1)),
                 scored[Len(scored)].score)

\* frequency = max(1, int((score / total_score) * list_size))
Frequency(score, total_score, list_size) ==
    Max(1, TruncatedShare(score, total_score, list_size))

\* weighted_list.extend([address] * frequency) for every address in turn
RECURSIVE Extended(_, _, _)
Extended(sorted, total_score, list_size) ==
    IF sorted = <<>> THEN <<>>
    ELSE LET r == sorted[Len(sorted)] IN
         Extended(SubSeq(sorted, 1, Len(sorted) - 1), total_score, list_size)
             \o [k \in 1..Frequency(r.score, total_score, list_size) |->
                    r.address]

\* while len(weighted_list) < list_size: the addresses are appended in
\* their order, round after round, until the list is full.
Padded(list, sorted, list_size) ==
    list \o [k \in 1..(list_size - Len(list)) |->
                sorted[((k - 1) % Len(sorted)) + 1].address]

\* The list is left as long as it is.
trim_missing(list, list_size) == list

\* weighted_list[:list_size]
trim(list, list_size) ==
    IF Len(list) > list_size THEN SubSeq(list, 1, list_size) ELSE list

\* The deterministic list for the rows in the order given.
weighted_list(scored, list_size) ==
    LET sorted == SortByScore(scored)
        total_score == SumScores(scored)
    IN IF FracLess(Frac(0, 1), total_score)
       THEN trim(Padded(Extended(sorted, total_score, list_size), sorted,
                        list_size), list_size)
       ELSE [i \in 1..list_size |->
                sorted[((i - 1) % Len(sorted)) + 1].address]

\* Routing tables the lists are built from: the persisted ones, and one
\* in which hB holds both addresses.
PriorityDatabases ==
    PersistedDatabases \cup
    {[table |-> <<Row("hB", PyStr(2), "X", "w1", 0),
                  Row("hB", PyStr(2), "Y", "w2", 0)>>,
      registry |-> [w \in Workers |-> "hB"],
      unregistered |-> [a \in Addresses |-> None]]}

\* Telemetry of one hotkey: none, or two records an hour apart with the
\* counters grown by the amounts given.
HourOf(h, tweets, other) ==
    <<Reading(h, PyInt(0), 0, 0), Reading(h, PyInt(SECONDS_IN_HOUR), tweets, other)>>

TelemetryOf(h) ==
    {<<>>} \cup {HourOf(h, v, o) : v \in 0..2, o \in {0, 4, 5}}

InitPriority ==
    \E db \in PriorityDatabases, M \in ChainNodeSets,
       a \in TelemetryOf("hA"), b \in TelemetryOf("hB") :
        Constructed(0, db, M, a \o b)

\* send_priority_miners: _get_delta_node_data, then
\* get_priority_miners_by_score(delta_node_data, simulation, list_size).
GetPriorityMinersByScore(simulation, list_size) ==
    /\ priority.op = "none"
    /\ \E rows \in get_all_addresses_with_hotkeys(miner_addresses) :
         LET nodes == get_delta_node_data(telemetry_data, metagraph_nodes)
             scores == calculate_weights(weights_manager, nodes,
                                         metagraph_nodes, simulation)
         IN /\ delta_node_data' = nodes
            /\ miner_scores' = scores
            /\ \E list \in get_priority_miners_by_score(
                               scores, rows, metagraph_nodes, list_size) :
                 priority' = [op |-> "get_priority_miners_by_score",
                              list_size |-> list_size,
                              scored |-> address_scores(rows, metagraph_nodes,
                                                        scores),
                              error |-> FALSE,
                              list |-> list]
    /\ UNCHANGED <<rtVars, errors, nodeVars, routing_table_updating, timeVars,
                   monVars, utVars, trig, lastPublish, telemetry_data,
                   weights_manager, sw, tseq, loops, monitor_max_records, scorer>>

\* GET /monitor/priority-miners-list?list_size=N
GetWeightedPriorityMinersList(list_size) ==
    /\ priority.op = "none"
    /\ \E rows \in get_all_addresses_with_hotkeys(miner_addresses) :
         LET nodes == get_delta_node_data(telemetry_data, metagraph_nodes)
             scores == calculate_weights(weights_manager, nodes,
                                         metagraph_nodes, FALSE)
             scored == IF DOMAIN scores = {} THEN <<>>
                       ELSE address_scores(rows, metagraph_nodes, scores)
         IN /\ delta_node_data' = nodes
            /\ miner_scores' = scores
            /\ priority' = [op |-> "get_weighted_priority_miners_list",
                            list_size |-> list_size,
                            scored |-> scored,
                            error |-> scored = <<>>,
                            list |-> IF scored = <<>> THEN <<>>
                                     ELSE weighted_list(scored, list_size)]
    /\ UNCHANGED <<rtVars, errors, nodeVars, routing_table_updating, timeVars,
                   monVars, utVars, trig, lastPublish, telemetry_data,
                   weights_manager, sw, tseq, loops, monitor_max_records, scorer>>

NextPriority ==
    \/ \E simulation \in BOOLEAN, list_size \in ListSizes :
           GetPriorityMinersByScore(simulation, list_size)
    \/ \E list_size \in ListSizes : GetWeightedPriorityMinersList(list_size)

SpecPriority == InitPriority /\ [][NextPriority]_vars

----------------------------------------------------------------------------
(* Direct calls of the process monitor.                                    *)

\* cleanup_old_records(hours=24), and monitor_cleanup_loop calls it so
RETENTION_HOURS == 24

MonitoredNames == {"update_tee", "set_weights"}

\* Execution ids a caller can hold: of the two names, started before or
\* after the retention time has passed.
ExecutionIds ==
    {ExecutionId(n, ms) :
        n \in MonitoredNames,
        ms \in {0, RETENTION_HOURS * MS_PER_HOUR}}

\* start_process(name); one execution of a name is in flight at a time,
\* and a start in the same millisecond takes the id of the one in flight.
Mon_Start(name) ==
    /\ \A id \in DOMAIN current_executions :
          current_executions[id].process_name = name =>
              id = ExecutionId(name, clock)
    /\ current_executions' = start_process(current_executions, name, clock)
    /\ lastCall' = [op |-> "start_process", case |-> name]
    /\ UNCHANGED <<miner_addresses, worker_registry, unregistered_tees, errors,
                   nodeVars, routing_table_updating, timeVars, clock,
                   process_history, utVars, trig, lastPublish, weightVars,
                   taskVars>>

\* update_metrics(execution_id, additional_metrics={...})
Mon_Update(id) ==
    /\ current_executions' =
           update_metrics(current_executions, id, <<>>, [updated |-> TRUE])
    /\ lastCall' = [op |-> "update_metrics",
                    case |-> IF id \in DOMAIN current_executions
                             THEN "in_flight" ELSE "unknown_id"]
    /\ UNCHANGED <<miner_addresses, worker_registry, unregistered_tees, errors,
                   nodeVars, routing_table_updating, timeVars, clock,
                   process_history, utVars, trig, lastPublish, weightVars,
                   taskVars>>

\* end_process(execution_id)
Mon_End(id) ==
    /\ LET ended == end_process(current_executions, process_history, id)
       IN /\ current_executions' = ended.ce
          /\ process_history' = ended.ph
    /\ lastCall' =
           [op |-> "end_process",
            case |-> IF id \notin DOMAIN current_executions THEN "unknown_id"
                     ELSE IF Len(process_history[id[1]]) >= monitor_max_records
                     THEN "ring_full" ELSE "ring_not_full"]
    /\ UNCHANGED <<miner_addresses, worker_registry, unregistered_tees, errors,
                   nodeVars, routing_table_updating, timeVars, clock, utVars,
                   trig, lastPublish, weightVars, taskVars>>

\* cleanup_old_records(hours)
Mon_Cleanup(hours) ==
    /\ process_history' = cleanup_old_records(process_history, clock, hours)
    /\ lastCall' = [op |-> "cleanup_old_records",
                    case |-> IF process_history' = process_history
                             THEN "kept_all" ELSE "removed"]
    /\ UNCHANGED <<miner_addresses, worker_registry, unregistered_tees, errors,
                   nodeVars, routing_table_updating, timeVars, clock,
                   current_executions, utVars, trig, lastPublish, weightVars,
                   taskVars>>

\* The retention time passes: monitor_cleanup_loop sleeps an hour between
\* two cleanups, executions started before are now a day old.
Mon_RetentionPasses ==
    /\ clock < RETENTION_HOURS * MS_PER_HOUR
    /\ clock' = RETENTION_HOURS * MS_PER_HOUR
    /\ UNCHANGED <<rtVars, errors, nodeVars, routing_table_updating, timeVars,
                   current_executions, process_history, utVars, trig,
                   lastPublish, weightVars, taskVars>>

NextMonitor ==
    \/ \E name \in MonitoredNames : Mon_Start(name)
    \/ \E id \in ExecutionIds : Mon_Update(id)
    \/ \E id \in ExecutionIds : Mon_End(id)
    \/ \E hours \in {0, RETENTION_HOURS} : Mon_Cleanup(hours)
    \/ Mon_RetentionPasses

\* A monitor of any capacity from 1 on, on an empty database.
InitMonitor ==
    \E size \in 1..(max_records + 1) :
        ConstructedWith(0, EmptyDatabase, Hotkeys, <<>>, size)

SpecMonitor == InitMonitor /\ [][NextMonitor]_vars

----------------------------------------------------------------------------
(* validator/background_tasks.py: the four periodic loops                  *)

BLOCKS_PER_WEIGHT_SETTING == 100

BLOCK_TIME_SECONDS == 12

SYNC_LOOP_CADENCE_SECONDS == 120

\* TIME_PER_WEIGHT_SETTING / 2; the loop takes int() of it.
WEIGHTS_LOOP_CADENCE_SECONDS ==
    (BLOCKS_PER_WEIGHT_SETTING * BLOCK_TIME_SECONDS) \div 2

\* Validator.start: the cadence each loop is created with.
CadenceSeconds(l) ==
    CASE l = "sync" -> SYNC_LOOP_CADENCE_SECONDS
      [] l = "set_weights" -> WEIGHTS_LOOP_CADENCE_SECONDS
      [] l = "update_tee" -> UPDATE_TEE_CADENCE
      [] l = "telemetry" -> 60 * 10

\* The cadence a loop falls back to when it is given none.
DefaultCadence(l) ==
    CASE l = "sync" -> 60
      [] l = "set_weights" -> 60
      [] l = "update_tee" -> 120
      [] l = "telemetry" -> 180

\* safe_cadence = max(30, int(cadence_seconds or default))
safe_cadence(l) ==
    LET given == IF CadenceSeconds(l) = 0 THEN DefaultCadence(l)
                 ELSE CadenceSeconds(l)
    IN IF given > 30 THEN given ELSE 30

\* The exception is not caught: it ends the coroutine and the task.
on_exception_escapes(l) == [pc |-> "ended", slept |-> 0]

\* except Exception: the error is logged (update_tee and telemetry also
\* close their monitor record) and the loop awaits
\* asyncio.sleep(retry_delay) inside the while True.
on_exception(l) == [pc |-> "sleep", slept |-> RetryDelay(safe_cadence(l))]

\* An iteration that opens a record under the name of its loop, whatever
\* the loop.
LoopProcessNamed(l) == IF l = "telemetry" THEN "telemetry_loop" ELSE l

\* The name under which an iteration of the loop calls start_process:
\* update_tee and telemetry_loop in background_tasks.py, set_weights inside
\* WeightsManager.set_weights; sync_loop and sync_metagraph make no call.
LoopProcessName(l) ==
    CASE l = "update_tee" -> "update_tee"
      [] l = "telemetry" -> "telemetry_loop"
      [] l = "set_weights" -> "set_weights"
      [] l = "sync" -> None

\* The monitor after the iteration's update_metrics and end_process.
LoopRecordEnded(l, errs) ==
    IF LoopProcessName(l) = None
    THEN [ce |-> current_executions, ph |-> process_history]
    ELSE LET id == ExecutionId(LoopProcessName(l), clock) IN
         end_process(update_metrics(current_executions, id, errs, NoMetrics),
                     process_history, id)

\* while True: the iteration starts and, in the loops that are monitored,
\* opens its record.
Loop_Begin(l) ==
    /\ loops[l].pc = "iterate"
    /\ loops' = [loops EXCEPT ![l].pc = "running"]
    /\ current_executions' =
          IF LoopProcessName(l) = None THEN current_executions
          ELSE start_process(current_executions, LoopProcessName(l), clock)
    /\ UNCHANGED <<rtVars, errors, nodeVars, routing_table_updating, timeVars,
                   clock, process_history, utVars, trig, lastPublish,
                   weightVars, sw, tseq, priority, monitor_max_records, scorer>>

\* The awaited work of the iteration returns: the record is updated and
\* ended, then asyncio.sleep(safe_cadence).
Loop_IterationReturns(l) ==
    /\ loops[l].pc = "running"
    /\ loops' = [loops EXCEPT ![l] = [pc |-> "sleep",
                                      slept |-> safe_cadence(l)]]
    /\ current_executions' = LoopRecordEnded(l, <<>>).ce
    /\ process_history' = LoopRecordEnded(l, <<>>).ph
    /\ UNCHANGED <<rtVars, errors, nodeVars, routing_table_updating, timeVars,
                   clock, utVars, trig, lastPublish, weightVars,
                   sw, tseq, priority, monitor_max_records, scorer>>

\* The awaited work of the iteration raises an Exception: the record gets
\* the error and is ended, then the retry sleep.
Loop_IterationRaises(l) ==
    /\ loops[l].pc = "running"
    /\ loops' = [loops EXCEPT ![l] = on_exception(l)]
    /\ current_executions' = LoopRecordEnded(l, <<"error">>).ce
    /\ process_history' = LoopRecordEnded(l, <<"error">>).ph
    /\ UNCHANGED <<rtVars, errors, nodeVars, routing_table_updating, timeVars,
                   clock, utVars, trig, lastPublish, weightVars,
                   sw, tseq, priority, monitor_max_records, scorer>>

\* The sleep is over: while True starts the next iteration.
Loop_Wake(l) ==
    /\ loops[l].pc = "sleep"
    /\ loops' = [loops EXCEPT ![l].pc = "iterate"]
    /\ UNCHANGED <<rtVars, errors, nodeVars, routing_table_updating, timeVars,
                   monVars, utVars, trig, lastPublish, weightVars,
                   sw, tseq, priority, monitor_max_records, scorer>>

Loop_Step(l) ==
    \/ Loop_Begin(l)
    \/ Loop_IterationReturns(l)
    \/ Loop_IterationRaises(l)
    \/ Loop_Wake(l)

NextLoops == \E l \in LoopNames : Loop_Step(l)

\* The four tasks on the asyncio event loop: a task that is ready to run is
\* run (the ready queue is first in, first out), every awaited call returns
\* or raises, and every sleep ends.
SpecLoops ==
    /\ Init
    /\ [][NextLoops]_vars
    /\ \A l \in LoopNames : WF_vars(Loop_Step(l))

----------------------------------------------------------------------------
(* validator/scorer.py                                                     *)

\* What the registry answers for /worker-id and /tee-version when the
\* request succeeds: a JSON object with or without the key.
StatNameAnswers == {None, "src1"}

WorkerVersionAnswers == {None, "v1", "v2"}

\* The stats of two source workers.
Source1Stats == PyDict(("twitter_scrapes" :> 2) @@ ("twitter_errors" :> 1))

Source2Stats == PyDict(("twitter_scrapes" :> 1) @@ ("web_success" :> 1))

\* The stats maps of a telemetry result: none, the new format (one dict per
\* source worker id), the old format (counters directly in the map) and a
\* map that mixes both.
StatsMaps ==
    {EmptyDict,
     "src1" :> Source1Stats,
     "src2" :> Source2Stats,
     ("src1" :> Source1Stats) @@ ("src2" :> Source2Stats),
     ("twitter_scrapes" :> PyInt(3)) @@ ("web_success" :> PyInt(1)),
     ("src1" :> Source1Stats) @@ ("twitter_scrapes" :> PyInt(1))}

\* telemetry_result.get("worker_version", None), .get("stats", {})
TelemetryResults ==
    {[worker_version |-> v, stats |-> m] :
        v \in WorkerVersionAnswers, m \in StatsMaps}

\* worker_stats.get(stat_name, 0)
GetStat(worker_stats, stat_name) ==
    IF stat_name \in DOMAIN worker_stats THEN worker_stats[stat_name] ELSE 0

\* stats[stat_name] += worker_stats.get(stat_name, 0), over the sources
RECURSIVE SumStat(_, _, _)
SumStat(stats_dict, sources, stat_name) ==
    IF sources = {} THEN 0
    ELSE LET c == CHOOSE x \in sources : TRUE IN
         GetStat(stats_dict[c].items, stat_name)
             + SumStat(stats_dict, sources \ {c}, stat_name)

\* The new-format branch of aggregate_telemetry_stats: the sources that
\* pass the active_stat_name test are summed; a counted value that is not a
\* dict has no get and raises AttributeError.
aggregate_sources(active_stat_name, stats_dict) ==
    LET counted == {k \in DOMAIN stats_dict :
                       active_stat_name = None \/ k = active_stat_name}
    IN IF \E k \in counted : stats_dict[k].type # "dict"
       THEN [raised |-> TRUE, stats |-> ZeroStats]
       ELSE [raised |-> FALSE,
             stats |-> [n \in StatNames |-> SumStat(stats_dict, counted, n)]]

\* The old-format test: a non-empty map none of whose values is a dict.
IsOldFormat(stats_dict) ==
    /\ DOMAIN stats_dict # {}
    /\ ~\E k \in DOMAIN stats_dict : stats_dict[k].type = "dict"

\* Without the test for a missing version.
aggregate_telemetry_stats_accept_all(active_stat_name, active_worker_version, telemetry_result) ==
    IF /\ active_worker_version # None
       /\ telemetry_result.worker_version # active_worker_version
    THEN [raised |-> FALSE, stats |-> ZeroStats]
    ELSE IF IsOldFormat(telemetry_result.stats)
    THEN [raised |-> FALSE, stats |-> ZeroStats]
    ELSE aggregate_sources(active_stat_name, telemetry_result.stats)

\* aggregate_telemetry_stats: zeros on a version mismatch, zeros when the
\* active or the reported version is missing, zeros for the old format,
\* else the sum over the counted sources.
aggregate_telemetry_stats(active_stat_name, active_worker_version, telemetry_result) ==
    IF /\ active_worker_version # None
       /\ telemetry_result.worker_version # active_worker_version
    THEN [raised |-> FALSE, stats |-> ZeroStats]
    ELSE IF active_worker_version = None
            \/ telemetry_result.worker_version = None
    THEN [raised |-> FALSE, stats |-> ZeroStats]
    ELSE IF IsOldFormat(telemetry_result.stats)
    THEN [raised |-> FALSE, stats |-> ZeroStats]
    ELSE aggregate_sources(active_stat_name, telemetry_result.stats)

\* fetch_active_stat_name: a 200 answer replaces the cached name by
\* data.get("worker_id"); a failed request (or a fresh cache) keeps it.
FetchActiveStatName(ok, value) ==
    /\ scorer' = [scorer EXCEPT
                     !.active_stat_name = IF ok THEN value ELSE @,
                     !.outcome = "fetch_active_stat_name"]
    /\ UNCHANGED <<rtVars, errors, nodeVars, routing_table_updating, timeVars,
                   monVars, utVars, trig, lastPublish, weightVars,
                   sw, tseq, priority, loops, monitor_max_records>>

\* fetch_active_worker_version, likewise with data.get("worker_version").
FetchActiveWorkerVersion(ok, value) ==
    /\ scorer' = [scorer EXCEPT
                     !.active_worker_version = IF ok THEN value ELSE @,
                     !.outcome = "fetch_active_worker_version"]
    /\ UNCHANGED <<rtVars, errors, nodeVars, routing_table_updating, timeVars,
                   monVars, utVars, trig, lastPublish, weightVars,
                   sw, tseq, priority, loops, monitor_max_records>>

\* get_node_data calls aggregate_telemetry_stats on the telemetry result of
\* a node; an exception is caught by the try block around the node.
AggregateTelemetryStats(telemetry_result) ==
    /\ LET res == aggregate_telemetry_stats(scorer.active_stat_name,
                                            scorer.active_worker_version,
                                            telemetry_result)
       IN scorer' = [scorer EXCEPT
                        !.telemetry_result = telemetry_result,
                        !.outcome = IF res.raised THEN "raised"
                                    ELSE "aggregated",
                        !.stats = res.stats]
    /\ UNCHANGED <<rtVars, errors, nodeVars, routing_table_updating, timeVars,
                   monVars, utVars, trig, lastPublish, weightVars,
                   sw, tseq, priority, loops, monitor_max_records>>

NextScorer ==
    \/ \E ok \in BOOLEAN, value \in StatNameAnswers :
           FetchActiveStatName(ok, value)
    \/ \E ok \in BOOLEAN, value \in WorkerVersionAnswers :
           FetchActiveWorkerVersion(ok, value)
    \/ \E t \in TelemetryResults : AggregateTelemetryStats(t)

SpecScorer == Init /\ [][NextScorer]_vars

----------------------------------------------------------------------------
(* Properties of the flag interlock and the publishers (SpecSched,         *)
(* SpecTrig).                                                              *)

\* C1: whenever send_connected_nodes or send_priority_miners issues a
\* publish call, routing_table_updating is false, in every interleaving.
\* The trigger endpoint checks the flag, awaits the connection, and
\* publishes after update_tee has set the flag.
C1_PublishOnlyWhileNotUpdating ==
    lastPublish.updating = FALSE

SkipRecord(ms) ==
    [start_time |-> StartTime(ms), errors |-> <<>>,
     additional_metrics |-> SkipMetrics("routing_table_updating")]

UpdatingPositions == {"connect", "nodes", "await_tee", "await_telemetry"}

PublishingPositions == {"pm_scoring", "pm_connect", "pm_publish", "pm_backoff"}

\* C3: in every update_tee iteration the flag is true while
\* connect_new_nodes and update_tee_list run, and false while the iteration
\* publishes, sleeps or waits to retry, whether it completed or raised.
C3_FlagBracketsTheUpdate ==
    /\ utPc \in UpdatingPositions => routing_table_updating
    /\ utPc \in PublishingPositions \cup {"sleep"} => ~routing_table_updating

C3_Witness ==
    /\ utPc = "sleep"
    /\ ut.sleep = "retry"
    /\ \E i \in 1..Len(ut.log) : ut.log[i].ev = "send_priority_miners_called"
    /\ ~routing_table_updating

Happened(e) == \E i \in 1..Len(ut.log) : ut.log[i].ev = e

\* Every occurrence of e2 in the iteration's log has an earlier e1.
Precedes(e1, e2) ==
    \A j \in 1..Len(ut.log) :
        ut.log[j].ev = e2 => \E i \in 1..(j - 1) : ut.log[i].ev = e1

\* C5: within an iteration connect_new_nodes completes before
\* update_tee_list starts, update_tee_list completes (flag still set) before
\* the flag is cleared, send_priority_miners is called and publishes only
\* after the flag is cleared, and an iteration whose update_tee_list raised
\* attempts no publish.
C5_IterationOrder ==
    /\ Precedes("iteration_started", "connect_new_nodes_done")
    /\ Precedes("connect_new_nodes_done", "update_tee_list_started")
    /\ Precedes("update_tee_list_started", "update_tee_list_done")
    /\ Precedes("update_tee_list_started", "update_tee_list_raised")
    /\ Precedes("update_tee_list_done", "send_priority_miners_called")
    /\ Precedes("flag_released", "send_priority_miners_called")
    /\ \A j \in 1..Len(ut.log) :
          /\ ut.log[j].ev \in {"update_tee_list_started", "update_tee_list_done"}
                => ut.log[j].updating
          /\ ut.log[j].ev = "flag_released"
                => /\ ~ut.log[j].updating
                   /\ j > 1
                   /\ ut.log[j - 1].ev \in {"update_tee_list_done",
                                            "update_tee_list_raised"}
          /\ ut.log[j].ev = "send_priority_miners_called" => ~ut.log[j].updating
    /\ utPc \in PublishingPositions => Happened("send_priority_miners_called")
    /\ Happened("update_tee_list_raised") =>
          /\ utPc = "sleep"
          /\ ~Happened("send_priority_miners_called")

C5_Witness ==
    /\ lastPublish.by = "send_priority_miners"
    /\ utPc = "sleep"
    /\ Happened("send_priority_miners_called")

----------------------------------------------------------------------------
(* Properties of the registration cycle and the sync loop (Spec).          *)

RowKeys(T) ==
    {<<T[i].hotkey, T[i].uid, T[i].address, T[i].worker_id>> : i \in 1..Len(T)}

\* C4: every insertion into or deletion from miner_addresses happens while
\* routing_table_updating is true.  The sync loop clears the rows of a
\* deregistered miner without looking at the flag.
C4_MutationsOnlyWhileUpdating ==
    [][RowKeys(miner_addresses') # RowKeys(miner_addresses)
          => routing_table_updating]_vars

\* C7: when a hotkey presents an address whose telemetry names a worker_id
\* bound to another hotkey, miner_addresses and worker_registry stay as they
\* are, the pair is not marked verified, and the error "Skipped: Worker ID
\* already registered" is recorded for the presenting hotkey and address.
C7_WorkerConflictIsRefused ==
    [][\A w \in Workers :
          (UT_TelemetryResult(w) /\ WorkerConflict(worker_registry, ut.cur, w)) =>
              /\ miner_addresses' = miner_addresses
              /\ worker_registry' = worker_registry
              /\ <<ut.cur, Head(ut.pending)>> \notin verified_entries'
              /\ ErrorRecord(ut.cur, Head(ut.pending),
                             "Skipped: Worker ID already registered")
                     \in errors']_vars

C7_Witness ==
    /\ lastCall = [op |-> "process_tee_address", case |-> "worker_conflict"]
    /\ \E e \in errors : e.message = "Skipped: Worker ID already registered"
    /\ \E w \in Workers : worker_registry[w] # None

\* C10: when the address a hotkey registers is held by another hotkey, the
\* collision reaches update_tee_list: the error "Address already exists for
\* another miner" is recorded for the claiming hotkey and the pair is not
\* marked verified.  add_miner_address swallows the IntegrityError, so the
\* caller marks the pair verified and records nothing.
C10_CollisionIsReported ==
    [][\A w \in Workers :
          (/\ UT_TelemetryResult(w)
           /\ TeeCase(miner_addresses, worker_registry, ut.cur,
                      Head(ut.pending), w) = "address_collision") =>
              /\ ErrorRecord(ut.cur, Head(ut.pending),
                             "Address already exists for another miner")
                     \in errors'
              /\ <<ut.cur, Head(ut.pending)>> \notin verified_entries']_vars

----------------------------------------------------------------------------
(* Properties of the routing-table operations (SpecRT).                    *)

\* C6 as stated: a second RegisterWorker of a bound worker_id by another
\* hotkey is rejected and the first binding stays.
C6_FirstBindingStays ==
    [][\A w \in Workers, h \in Hotkeys :
          (RegisterWorker(w, h) /\ WorkerConflict(worker_registry, h, w)) =>
              get_worker_hotkey(worker_registry', w)
                  = get_worker_hotkey(worker_registry, w)]_vars

\* C6, amended: RegisterWorker is insert-or-replace; after
\* RegisterWorker(w, h) GetWorkerHotkey(w) returns h, also when w was bound
\* to another hotkey, and no other binding changes.
C6_LastBindingWins ==
    [][\A w \in Workers, h \in Hotkeys :
          RegisterWorker(w, h) =>
              /\ get_worker_hotkey(worker_registry', w) = h
              /\ \A v \in Workers \ {w} :
                    get_worker_hotkey(worker_registry', v)
                        = get_worker_hotkey(worker_registry, v)]_vars

C6_Witness ==
    /\ lastCall = [op |-> "register_worker", case |-> "rebinding"]
    /\ \E w \in Workers : worker_registry[w] = "hB"

\* C8: every address present in miner_addresses appears in exactly one row.
C8_AddressInOneRow ==
    \A i, j \in 1..Len(miner_addresses) :
        miner_addresses[i].address = miner_addresses[j].address => i = j

C8_Witness ==
    /\ lastCall = [op |-> "add_miner_address", case |-> "address_collision"]
    /\ Len(miner_addresses) = Cardinality(Addresses)

\* C9: AddMinerAddress for an address held by another hotkey leaves
\* miner_addresses exactly as it was.  The caller's row with the same uid
\* is deleted before the insert fails.
C9_CollisionDoesNotMutate ==
    [][\A h \in Hotkeys, u \in Uids, a \in Addresses, w \in Workers :
          (AddMinerAddress(h, u, a, w) /\ HeldByOther(miner_addresses, h, a))
              => miner_addresses' = miner_addresses]_vars

\* C11: when update_tee_list finishes, a row that was in the baseline of the
\* cycle, was not verified in it and was stamped less than 4 hours ago is
\* still in miner_addresses.  The age is taken between datetime.now(), the
\* local time, and the UTC stamp of SQLite, so east of UTC a younger row is
\* removed.
C11_YoungUnverifiedSurvive ==
    [][UT_FinishUpdate =>
          \A i \in 1..Len(miner_addresses) :
              LET r == miner_addresses[i] IN
              (/\ <<r.hotkey, r.address>> \in current_entries_set \ verified_entries
               /\ now - r.timestamp < CLEANUP_AGE_HOURS * SECONDS_PER_HOUR)
                  => \E j \in 1..Len(miner_addresses') :
                         miner_addresses'[j] = r]_vars

\* The row of worker w at address a under hotkey h and its node id.
Registered(T, h, a, w) ==
    \E i \in 1..Len(T) :
        T[i] = Row(h, ToText(NodeId(h)), a, w, T[i].timestamp)

\* C12: when update_tee_list verifies an address that is already registered
\* with the same hotkey, uid and worker_id, the row's timestamp becomes the
\* time of the cycle.  node.node_id is an int and the stored uid a str, so
\* add_miner_address finds no identical row, its INSERT fails on the unique
\* address and the timestamp stays.
C12_ReverifyRefreshesTimestamp ==
    [][\A w \in Workers :
          (/\ UT_TelemetryResult(w)
           /\ ~WorkerConflict(worker_registry, ut.cur, w)
           /\ Registered(miner_addresses, ut.cur, Head(ut.pending), w))
              => get_address_timestamp(miner_addresses', Head(ut.pending))
                     = CURRENT_TIMESTAMP(now)]_vars

\* The addresses present in both miner_addresses and unregistered_tees.
Drift(T, U) == get_all_addresses(T) \cap get_all_unregistered_tee_addresses(U)

\* C13: when update_tee_list finishes, no address is present in both
\* miner_addresses and unregistered_tees.
C13_NoDriftAfterUpdate ==
    [][UT_FinishUpdate => Drift(miner_addresses', unregistered_tees') = {}]_vars

\* A cycle has just finished on a database that held shadow entries: the
\* entry of a registered address is gone, the entry of an address that is no
\* longer registered is kept.
C13_Witness ==
    /\ lastCall.op = "cleanup_unverified_entries"
    /\ \E a \in get_all_addresses(miner_addresses) : unregistered_tees[a] = None
    /\ \E b \in Addresses \ get_all_addresses(miner_addresses) :
           unregistered_tees[b] # None

\* C14: after a candidate address fails verification (no telemetry result,
\* or a result without worker_id), unregistered_tees holds the address with
\* the presenting hotkey, an error record of that hotkey and address exists,
\* and the cycle goes on.  add_unregistered_tee only posts the address to
\* the MASA API; nothing is written to unregistered_tees.
C14_FailureIsTracked ==
    [][\A outcome \in {"null", "no_worker_id"} :
          UT_TelemetryResult(outcome) =>
              /\ unregistered_tees'[Head(ut.pending)] = ut.cur
              /\ \E e \in errors' :
                     e.hotkey = ut.cur /\ e.tee_address = Head(ut.pending)
              /\ utPc' \in {"await_telemetry", "nodes"}]_vars

----------------------------------------------------------------------------
(* Properties of the scoring functions (SpecDelta, SpecWeights).           *)

DeltaDone == lastCall.op = "get_delta_node_data"

\* The hotkeys with at least two telemetry records.
SeriesHotkeys == {h \in Hotkeys : Len(RecordsOf(telemetry_data, h)) >= 2}

Tweets(r) == r.counters["twitter_returned_tweets"]

\* C15: for a series of one hotkey with at least 2 records, every record at
\* or after the baseline finally chosen has twitter_returned_tweets greater
\* than or equal to the baseline's.
C15_NoRecordBelowBaseline ==
    DeltaDone =>
        \A h \in SeriesHotkeys :
            LET sorted == SortByTimestamp(RecordsOf(telemetry_data, h))
                b == BaselineIndex(sorted, 1, 2)
            IN \A i \in b..Len(sorted) : Tweets(sorted[i]) >= Tweets(sorted[b])

\* A series whose baseline was reset and is followed by later records.
C15_Witness ==
    /\ DeltaDone
    /\ \E h \in SeriesHotkeys :
           LET sorted == SortByTimestamp(RecordsOf(telemetry_data, h))
               b == BaselineIndex(sorted, 1, 2)
           IN b > 1 /\ b < Len(sorted) /\ Tweets(sorted[Len(sorted)]) > Tweets(sorted[b])

\* C16: every delta counter emitted by _get_delta_node_data, and
\* total_errors, is greater than or equal to 0, also when a counter other
\* than twitter_returned_tweets went down without a baseline reset.
C16_DeltasNotNegative ==
    DeltaDone =>
        \A i \in 1..Len(delta_node_data) :
            /\ \A c \in Counters : delta_node_data[i].counters[c] >= 0
            /\ delta_node_data[i].total_errors >= 0

\* A series without a reset in which twitter_errors went down from the
\* first record to the last while the tweets went up.
C16_Witness ==
    /\ DeltaDone
    /\ \E h \in SeriesHotkeys :
           LET sorted == SortByTimestamp(RecordsOf(telemetry_data, h))
               first == sorted[1]
               last == sorted[Len(sorted)]
           IN /\ BaselineIndex(sorted, 1, 2) = 1
              /\ Tweets(last) > Tweets(first)
              /\ last.counters["twitter_errors"] < first.counters["twitter_errors"]
              /\ \E i \in 1..Len(delta_node_data) :
                     /\ delta_node_data[i].hotkey = h
                     /\ delta_node_data[i].counters["twitter_errors"] = 0
                     /\ delta_node_data[i].counters["twitter_returned_tweets"] > 0

\* Record i of a telemetry list comes before record j when the list is
\* sorted by timestamp: an earlier timestamp, or the same one and an
\* earlier place in the list.
ComesBefore(list, i, j) ==
    \/ convert_timestamp_to_int(list[i].timestamp)
           < convert_timestamp_to_int(list[j].timestamp)
    \/ /\ convert_timestamp_to_int(list[i].timestamp)
              = convert_timestamp_to_int(list[j].timestamp)
       /\ i < j

\* The last record of the sorted list.
LatestOf(list) ==
    list[CHOOSE i \in 1..Len(list) :
             \A j \in 1..Len(list) \ {i} : ComesBefore(list, j, i)]

\* The record the left-to-right walk ends on: the first record, in sorted
\* order, that holds the lowest twitter_returned_tweets of the series.
WalkBaselineOf(list) ==
    LET lowest == {i \in 1..Len(list) :
                      \A j \in 1..Len(list) : Tweets(list[i]) <= Tweets(list[j])}
    IN list[CHOOSE i \in lowest :
                \A j \in lowest \ {i} : ComesBefore(list, i, j)]

DeltaOf(h) ==
    delta_node_data[CHOOSE i \in 1..Len(delta_node_data) :
                        delta_node_data[i].hotkey = h]

TelemetryHotkeys == {telemetry_data[i].hotkey : i \in 1..Len(telemetry_data)}

\* C20: _get_delta_node_data emits exactly one record for every hotkey of
\* the telemetry or of the chain node set; a hotkey with fewer than 2
\* telemetry records, or with none, gets all-zero counters, time_span 0 and
\* total_errors 0.
C20_OneRecordPerHotkey ==
    DeltaDone =>
        /\ \A h \in TelemetryHotkeys \cup metagraph_nodes :
               Cardinality({i \in 1..Len(delta_node_data) :
                               delta_node_data[i].hotkey = h}) = 1
        /\ \A i \in 1..Len(delta_node_data) :
               /\ delta_node_data[i].hotkey \in TelemetryHotkeys \cup metagraph_nodes
               /\ delta_node_data[i].hotkey \notin SeriesHotkeys =>
                      /\ delta_node_data[i].counters = ZeroCounters
                      /\ delta_node_data[i].time_span_seconds = 0
                      /\ delta_node_data[i].total_errors = 0

\* hA has a single telemetry record and is not on chain, hB is on chain and
\* has no telemetry, and each has its record.
C20_Witness ==
    /\ DeltaDone
    /\ Len(RecordsOf(telemetry_data, "hA")) = 1
    /\ Len(RecordsOf(telemetry_data, "hB")) = 0
    /\ metagraph_nodes = {"hB"}
    /\ Len(delta_node_data) = 2

\* C17: constructing the WeightsManager with tweets_weight +
\* error_quality_weight differing from 1.0 by more than 1e-6 fails with an
\* error, and with a pair that sums to 1.0 within 1e-6 it succeeds.
C17_WeightsMustSumToOne ==
    lastCall.op = "WeightsManager" =>
        LET total_weight == weights_manager.tweets_weight
                                + weights_manager.error_quality_weight
        IN IF total_weight - WEIGHT_ONE > WEIGHT_TOLERANCE
              \/ WEIGHT_ONE - total_weight > WEIGHT_TOLERANCE
           THEN weights_manager.error = "ValueError"
           ELSE weights_manager.error = None

\* The constructor has refused a pair that sums to 1.000002.
C17_Witness ==
    /\ lastCall = [op |-> "WeightsManager", case |-> "ValueError"]
    /\ weights_manager.tweets_weight + weights_manager.error_quality_weight
           = WEIGHT_ONE + 2 * WEIGHT_TOLERANCE

\* The error rate of a node is at least twice the threshold; a node without
\* a time span has the rate plus infinity.
AtLeastTwiceThreshold(node, threshold) ==
    ~FracLess(ErrorRate(node), Frac(2 * threshold, 1))

\* C18: every node whose error rate is at least 2 times the threshold gets
\* the final score 0, whatever its tweets; this covers a node with
\* time_span 0, whose error rate is plus infinity.  The infinite rate is
\* replaced by max_finite + 1 before the penalty is taken, so such a node
\* keeps a score when the other rates are low.
C18_TwiceThresholdScoresZero ==
    lastCall.op = "calculate_weights" =>
        \A i \in 1..Len(delta_node_data) :
            LET node == delta_node_data[i]
                simulation == lastCall.case = "simulation"
            IN (/\ AtLeastTwiceThreshold(node, weights_manager.error_rate_threshold)
                /\ HasUid(node, metagraph_nodes, simulation))
                   => miner_scores[ScoredUid(node, metagraph_nodes, simulation)].num
                          = 0

----------------------------------------------------------------------------
(* Properties of set_weights (SpecSetWeights)                              *)

\* C21: an invocation of set_weights that finds blocks_since_last_update
\* below min_interval sleeps (min_interval - blocks_since_last_update) * 12
\* seconds and returns without submitting weights: it sleeps that long and
\* nothing else, calls set_node_weights not once, and is at its sleep or
\* has returned.
C21_ShortIntervalReturnsWithoutSubmit ==
    sw.waited =>
        /\ sw.slept = <<(sw.min_interval - sw.blocks_since_update.val) * 12>>
        /\ sw.results = <<>>
        /\ sw.pc \in {"interval_sleep", "returned", "idle"}

\* C28: set_weights calls set_node_weights at most 3 times in an
\* invocation, never again after a call that returned true, and when all
\* 3 calls failed, by a false result or an exception, it has returned and
\* not raised.
C28_SubmitThenReturn ==
    /\ Len(sw.results) <= 3
    /\ \A i \in 1..(Len(sw.results) - 1) : sw.results[i] # "true"
    /\ sw.results # <<>> => sw.outcome # "raised"
    /\ (Len(sw.results) = 3 /\ sw.results[3] # "true") =>
           sw.outcome = "returned"

\* Three failed submits, the first by a false result and the last by an
\* exception, in the second invocation.
C28_Witness ==
    /\ sw.results = <<"false", "raise", "raise">>
    /\ sw.outcome = "returned"
    /\ sw.cycles = 2

----------------------------------------------------------------------------
(* Properties of execute_telemetry_sequence (SpecSequence)                 *)

Succeeded(attempt) ==
    Len(attempt) = 4 /\ \A k \in 1..4 : attempt[k].ok

\* C22: execute_telemetry_sequence makes at most 3 attempts; every attempt
\* calls generate, add, status, result in that order and stops at its
\* first failing leg; a further attempt starts only after a failed one;
\* the call returns the decoded result of the first attempt whose four
\* legs succeeded, returns null after the third failed attempt, and never
\* raises.
C22_ThreeAttemptsThenNull ==
    LET A == tseq.attempts
        order == <<"generate", "add", "status", "result">>
    IN /\ Len(A) <= 3
       /\ \A i \in 1..Len(A) :
            /\ Len(A[i]) <= 4
            /\ \A k \in 1..Len(A[i]) : A[i][k].leg = order[k]
            /\ \A k \in 1..(Len(A[i]) - 1) : A[i][k].ok
       /\ \A i \in 1..(Len(A) - 1) :
            A[i] # <<>> /\ ~A[i][Len(A[i])].ok
       /\ tseq.pc # "raised"
       /\ tseq.pc = "returned" =>
            IF Succeeded(A[Len(A)])
            THEN tseq.result = A[Len(A)][4].value
            ELSE Len(A) = 3 /\ tseq.result = "null"

\* The call returned null after three failed attempts that were abandoned
\* at different legs.
C22_Witness ==
    /\ tseq.pc = "returned"
    /\ tseq.result = "null"
    /\ Len(tseq.attempts) = 3
    /\ Len(tseq.attempts[1]) = 4
    /\ Len(tseq.attempts[2]) = 1
    /\ Len(tseq.attempts[3]) = 3

----------------------------------------------------------------------------
(* Properties of the priority lists (SpecPriority)                         *)

\* A routing-table address belongs to a scored hotkey: its hotkey is a
\* chain node and the node's uid has a score.
ScoredAddresses ==
    {miner_addresses[i].address :
        i \in {j \in 1..Len(miner_addresses) :
                  /\ miner_addresses[j].hotkey \in metagraph_nodes
                  /\ NodeId(miner_addresses[j].hotkey) \in DOMAIN miner_scores}}

Count(list, a) == Cardinality({k \in 1..Len(list) : list[k] = a})

\* C29: for a total score above 0 the deterministic weighted list has
\* exactly list_size entries, and an address with a higher score appears
\* in it at least as often as an address with a lower score.
C29_DeterministicListIsMonotone ==
    (/\ priority.op = "get_weighted_priority_miners_list"
     /\ priority.scored # <<>>
     /\ FracLess(Frac(0, 1), SumScores(priority.scored))) =>
        /\ Len(priority.list) = priority.list_size
        /\ \A i, j \in 1..Len(priority.scored) :
             FracLess(priority.scored[j].score, priority.scored[i].score) =>
                 Count(priority.list, priority.scored[i].address)
                     >= Count(priority.list, priority.scored[j].address)

\* Two addresses with different positive scores share a list of three
\* entries, the higher one twice.
C29_Witness ==
    /\ priority.op = "get_weighted_priority_miners_list"
    /\ Len(priority.scored) = 2
    /\ FracLess(Frac(0, 1), priority.scored[1].score)
    /\ FracLess(priority.scored[1].score, priority.scored[2].score)
    /\ priority.list_size = 3
    /\ Count(priority.list, priority.scored[2].address) = 2
    /\ Count(priority.list, priority.scored[1].address) = 1

----------------------------------------------------------------------------
(* Properties of the process monitor (SpecMonitor)                         *)

\* C24: after any sequence of start_process, update_metrics, end_process
\* and cleanup_old_records calls the ring of finished records of every
\* process name holds at most max_records entries (the capacity the
\* monitor was built with), and an end_process on a
\* full ring drops the oldest record, keeps the others in their order and
\* puts the new record last.
C24_RingIsBounded ==
    /\ [](\A n \in ProcessNames : Len(process_history[n]) <= monitor_max_records)
    /\ [][\A id \in ExecutionIds :
            (/\ Mon_End(id)
             /\ id \in DOMAIN current_executions
             /\ Len(process_history[id[1]]) = monitor_max_records) =>
                /\ Len(process_history'[id[1]]) = monitor_max_records
                /\ \A k \in 1..(monitor_max_records - 1) :
                     process_history'[id[1]][k] = process_history[id[1]][k + 1]
                /\ process_history'[id[1]][monitor_max_records].start_time =
                       current_executions[id].start_time]_vars

\* An end_process met a full ring, and the ring now ends with a record
\* started after the retention time and still holds one started before.
C24_Witness ==
    /\ lastCall = [op |-> "end_process", case |-> "ring_full"]
    /\ Len(process_history["update_tee"]) = monitor_max_records
    /\ process_history["update_tee"][monitor_max_records].start_time
           = StartTime(RETENTION_HOURS * MS_PER_HOUR)
    /\ monitor_max_records = 2
    /\ process_history["update_tee"][1].start_time = 0

C26_OldUnverifiedRemoved ==
    [][UT_FinishUpdate =>
          \A i \in 1..Len(miner_addresses) :
              LET r == miner_addresses[i]
                  StillThere == \E j \in 1..Len(miner_addresses') :
                                    /\ miner_addresses'[j].hotkey = r.hotkey
                                    /\ miner_addresses'[j].address = r.address
              IN /\ (/\ <<r.hotkey, r.address>>
                            \in current_entries_set \ verified_entries
                      /\ now - r.timestamp
                            >= CLEANUP_AGE_HOURS * SECONDS_PER_HOUR)
                        => ~StillThere
                 /\ <<r.hotkey, r.address>> \in verified_entries
                        => StillThere]_vars

\* A candidate of update_tee_list that names the validator's own host or is
\* not an https address.
NotPublicHttps(a) ==
    LET text == Text(a) IN
    \/ \E i \in 1..Len(text) : text[i] \in {"localhost", "127.0.0.1"}
    \/ Head(text) # "https://"

\* C27: no candidate address that contains localhost or 127.0.0.1, and no
\* candidate that does not begin with https://, is ever sent a verification
\* request, added to the verified set or inserted into miner_addresses by
\* update_tee_list; an error record is written for it instead.
C27_OnlyPublicHttpsIsVerified ==
    /\ [](/\ \A i \in 1..Len(miner_addresses) :
                 ~NotPublicHttps(miner_addresses[i].address)
          /\ \A p \in verified_entries : ~NotPublicHttps(p[2]))
    /\ [][\A outcome \in TelemetryOutcomes :
             (UT_TelemetryResult(outcome) /\ NotPublicHttps(Head(ut.pending)))
                 => /\ lastCall'.case = "skipped"
                    /\ miner_addresses' = miner_addresses
                    /\ verified_entries' = verified_entries
                    /\ worker_registry' = worker_registry
                    /\ \E e \in errors' :
                           /\ e.hotkey = ut.cur
                           /\ e.tee_address = Head(ut.pending)
                           /\ e.message \in
                                  {"Skipped: localhost TEE address",
                                   "Skipped: non-HTTPS TEE address"}
                    /\ errors \subseteq errors']_vars

\* A miner named its localhost address and a public one: the first was
\* skipped with an error record and the second was registered.
C27_Witness ==
    /\ lastCall = [op |-> "process_tee_address", case |-> "registered"]
    /\ \E e \in errors : e.tee_address = "I"
                           /\ e.message = "Skipped: localhost TEE address"
    /\ \E i \in 1..Len(miner_addresses) : miner_addresses[i].address = "X"

\* max(30, cadence / 2) for the cadence a loop runs with.
MaxOf(a, b) == IF a >= b THEN a ELSE b

\* C30: an exception raised inside an iteration of a periodic loop (sync,
\* update-tee, telemetry, set-weights) never ends the loop: the loop sleeps
\* max(30, cadence/2) seconds and starts another iteration, so each loop
\* iterates infinitely often under fair scheduling.
C30_ExceptionNeverEndsLoop ==
    /\ [][\A l \in LoopNames :
             Loop_IterationRaises(l) =>
                 loops'[l] = [pc |-> "sleep",
                              slept |-> MaxOf(30, CadenceSeconds(l) \div 2)]]_vars
    /\ \A l \in LoopNames :
          /\ []<>(loops[l].pc = "iterate")
          /\ []<>(loops[l].pc = "sleep")

\* Every loop has met an exception, slept its retry delay and is in its
\* next iteration.
C30_Witness ==
    \A l \in LoopNames :
        loops[l] = [pc |-> "iterate",
                    slept |-> MaxOf(30, CadenceSeconds(l) \div 2)]

\* The in-flight entries opened under the record name of loop l.
InFlight(CE, l) ==
    {id \in DOMAIN CE : CE[id].process_name = LoopProcessNamed(l)}

\* C31: every iteration of each of the four periodic loops (sync,
\* update-tee, telemetry, set-weights) opens exactly one ProcessMonitor
\* record for that loop and ends it before the loop sleeps, on success and
\* on exception, so no in-flight entry of a loop remains while that loop
\* sleeps.  sync_loop never calls the ProcessMonitor.
C31_OneRecordPerIteration ==
    /\ [][\A l \in LoopNames :
             /\ Loop_Begin(l) =>
                   Cardinality(InFlight(current_executions', l))
                       = Cardinality(InFlight(current_executions, l)) + 1
             /\ (Loop_IterationReturns(l) \/ Loop_IterationRaises(l)) =>
                   /\ Cardinality(InFlight(current_executions, l)) = 1
                   /\ InFlight(current_executions', l) = {}
                   /\ process_history'[LoopProcessNamed(l)] # <<>>]_vars
    /\ [](\A l \in LoopNames :
             loops[l].pc = "sleep" => InFlight(current_executions, l) = {})

SumOfSources(stats_dict, n) ==
    SumStat(stats_dict, DOMAIN stats_dict, n)

\* C33: when no active stat_name and no active worker_version are known
\* (the registry fetch failed and nothing is cached), the scorer accepts
\* all: the counters of a new-format reading are summed over every
\* source_worker_id key, not zeroed.  The code returns zeros as soon as the
\* active worker_version is None.
C33_NothingKnownAcceptsAll ==
    (/\ scorer.outcome = "aggregated"
     /\ scorer.active_stat_name = None
     /\ scorer.active_worker_version = None
     /\ DOMAIN scorer.telemetry_result.stats # {}
     /\ \A k \in DOMAIN scorer.telemetry_result.stats :
            scorer.telemetry_result.stats[k].type = "dict")
        => \A n \in StatNames :
               scorer.stats[n] = SumOfSources(scorer.telemetry_result.stats, n)

\* The rows of hotkey h, in table order.
RowsOf(T, h) == LET Mine(r) == r.hotkey = h IN SelectSeq(T, Mine)

\* C34: after remove_disconnected_nodes returns, every hotkey in
\* connected_nodes is in the chain node set, every removed hotkey has no
\* row in miner_addresses, and the connections and rows of the hotkeys
\* still in the chain node set are unchanged.
C34_DisconnectedAreRemoved ==
    [][\A M \in ChainNodeSets :
          SyncLoopIteration(M) =>
              /\ connected_nodes' \subseteq M
              /\ \A h \in connected_nodes \ connected_nodes' :
                     RowsOf(miner_addresses', h) = <<>>
              /\ \A h \in M :
                     /\ (h \in connected_nodes') = (h \in connected_nodes)
                     /\ RowsOf(miner_addresses', h)
                            = RowsOf(miner_addresses, h)]_vars

\* A connected hotkey with a row left the chain: it is gone from
\* connected_nodes and from the table, and a hotkey still on chain kept its
\* connection and its row.
C34_Witness ==
    /\ lastCall = [op |-> "remove_disconnected_nodes", case |-> "removed"]
    /\ connected_nodes # {}
    /\ connected_nodes \subseteq metagraph_nodes
    /\ \E h \in connected_nodes : RowsOf(miner_addresses, h) # <<>>

\* The score 1.0 in the units of miner_scores.
SCORE_ONE == WEIGHT_ONE * KURTOSIS_ONE

\* C35: every weight returned by calculate_weights lies in the closed
\* interval [0, 1], for every list of delta records (records whose
\* time_span is 0 included).  A node without a time span is flagged with
\* the rate plus infinity, the rate is then replaced by max_finite + 1, and
\* when that is below the threshold the penalty factor is negative and the
\* base score is multiplied by more than 1.
C35_WeightsInUnitInterval ==
    lastCall.op = "calculate_weights" =>
        \A u \in DOMAIN miner_scores :
            /\ miner_scores[u].num >= 0
            /\ ~FracLess(Frac(SCORE_ONE, 1), miner_scores[u])

\* error_rates_per_hour after np.where, for node i of the list.
ReplacedRate(nodes, i) ==
    ReplaceInfinite(ErrorRate(nodes[i]),
                    MaxFiniteErrorRate([j \in 1..Len(nodes) |->
                                           ErrorRate(nodes[j])]))

\* threshold_exceeded_mask[i]
Flagged(wm, nodes, i) ==
    FracLess(Frac(wm.error_rate_threshold, 1), ErrorRate(nodes[i]))

\* base_score of node i: the two kurtosis curves with their weights.
BaseScore(wm, nodes, i) ==
    LET idx == 1..Len(nodes)
        tweets == apply_kurtosis_custom(
                      [j \in idx |->
                          Frac(nodes[j].counters["twitter_returned_tweets"], 1)])
        quality == apply_kurtosis_custom(
                       [j \in idx |-> QualityScore(ReplacedRate(nodes, j))])
    IN tweets[i] * wm.tweets_weight + quality[i] * wm.error_quality_weight

\* C39: in calculate_weights the penalty factor applied to a node flagged
\* as exceeding the error-rate threshold is always within [0, 1], so a
\* flagged node's final score is never greater than its base score; this
\* includes the nodes flagged because time_span is 0, whose rate is
\* replaced by max_finite + 1 before the penalty is computed.
C39_PenaltyWithinUnitInterval ==
    lastCall.op = "calculate_weights" =>
        \A i \in 1..Len(delta_node_data) :
            LET node == delta_node_data[i]
                simulation == lastCall.case = "simulation"
                penalty == PenaltyFactor(
                               ReplacedRate(delta_node_data, i),
                               weights_manager.error_rate_threshold)
            IN (/\ Flagged(weights_manager, delta_node_data, i)
                /\ HasUid(node, metagraph_nodes, simulation))
                   => /\ penalty.num >= 0
                      /\ penalty.num <= penalty.den
                      /\ ~FracLess(
                            Frac(BaseScore(weights_manager, delta_node_data, i), 1),
                            miner_scores[ScoredUid(node, metagraph_nodes,
                                                   simulation)])

\* C36: get_priority_miners_by_score returns one entry per scored
\* routing-table address, ordered by score with the highest-scoring
\* miner's address first.  The list is drawn by np.random.choice with
\* replacement: it has list_size entries in the order of the draws.
C36_OneEntryPerAddressByScore ==
    (/\ priority.op = "get_priority_miners_by_score"
     /\ priority.scored # <<>>) =>
        /\ Len(priority.list) = Len(priority.scored)
        /\ \A i \in 1..Len(priority.scored) :
               Count(priority.list, priority.scored[i].address) = 1
        /\ \A k \in 1..(Len(priority.list) - 1) :
               \A i, j \in 1..Len(priority.scored) :
                   (/\ priority.scored[i].address = priority.list[k]
                    /\ priority.scored[j].address = priority.list[k + 1])
                       => ~FracLess(priority.scored[i].score,
                                    priority.scored[j].score)

\* C40: in the deterministic weighted list, when the total score is above
\* 0 and the number of scored addresses does not exceed list_size, every
\* scored address appears at least once in the returned list.  Every
\* address is entered max(1, share) times, so the entries can outnumber
\* list_size, and the cut to list_size drops the addresses at the end.
C40_EveryScoredAddressAppears ==
    (/\ priority.op = "get_weighted_priority_miners_list"
     /\ priority.scored # <<>>
     /\ FracLess(Frac(0, 1), SumScores(priority.scored))
     /\ Len(priority.scored) <= priority.list_size) =>
        \A i \in 1..Len(priority.scored) :
            Count(priority.list, priority.scored[i].address) >= 1

\* C37: at the end of update_tee_list every (hotkey, address) pair that
\* was added to the verified set in that cycle has a row in
\* miner_addresses with that hotkey and address, also when the miner names
\* two addresses that both verify and when the insertion collided with
\* another hotkey's row.  A collision is swallowed by add_miner_address,
\* and _register_tee_address adds the pair to the verified set anyway.
C37_VerifiedPairsHaveRows ==
    [][UT_FinishUpdate =>
          \A pair \in verified_entries :
              \E i \in 1..Len(miner_addresses') :
                  /\ miner_addresses'[i].hotkey = pair[1]
                  /\ miner_addresses'[i].address = pair[2]]_vars

\* C38: when remove_disconnected_nodes drops a hotkey while the update
\* cycle that started to process it waits for a verification request, the
\* cycle does not insert an address for the dropped hotkey, so that no
\* row of it is left after both have completed.  The hotkey is looked up
\* in the metagraph before its /tee request only; the verification result
\* is registered with the node object read then.
C38_NoInsertForDroppedHotkey ==
    [][\A outcome \in TelemetryOutcomes :
          (/\ UT_TelemetryResult(outcome)
           /\ ut.cur \notin metagraph_nodes
           /\ ut.cur \notin connected_nodes
           /\ RowsOf(miner_addresses, ut.cur) = <<>>)
              => RowsOf(miner_addresses', ut.cur) = <<>>]_vars

====
